---- MODULE Spec2Model ----
\* A model of the browsing engine of sample/script.js (class HighSpeedFileManager):
\* navigation and history, the directory cache and its prefetch queue, and the
\* search engine with its cache, the file list and its virtual window, and the
\* audio player.  Strings are sequences of one-character strings, so that
\* normalisation, lower-casing and key building are computed, not assumed.
EXTENDS Integers, Sequences, FiniteSets, TLC

\* ---------------------------------------------------------------- bounds
MaxCommands == 3     \* commands that change the state, in a behaviour of Spec
MaxWarmCommands == 2 \* the same, in a behaviour that starts from InitWarm
MaxPending == 2      \* outstanding API requests at one time
MaxTourCommands == 3 \* the same, in a behaviour that starts from InitTour
MaxTrail == 3        \* state-changing steps the trail remembers
WarmNavs == 100      \* navigations of the long session that precedes InitWarm
WarmSearches == 50   \* searches of the long session that precedes InitWarm
MaxNameLen == 3      \* length of the file names calculateRelevance is applied to
MaxQueryLen == 2     \* length of the queries calculateRelevance is applied to
MaxRankLen == 4      \* items of the merged collections the relevance sort is applied to
MaxLoads == 2        \* calls of loadAudioFile in progress at one time
MaxAudios == 2       \* Audio elements created in a behaviour of SpecPlayer
MaxFrames == 3       \* animation frames requested in a behaviour of SpecPlayer
MaxSamples == 4      \* samples of the channel the waveform is computed from
MaxWidth == 3        \* width of the waveform canvas, in points
MaxIssued == 3       \* calls of loadAudioFile in a behaviour of SpecPlayer
MaxOps == 2          \* file operations (paste, delete, create) in progress at one time
MaxFileCommands == 4 \* commands that change the state, in a behaviour of SpecFiles
MaxListing == 7      \* items of the listings queuePrefetch is applied to
MaxQueries == 2      \* search calls whose results are merged
MaxFound == 3        \* items one search call returns

\* ------------------------------------------------------ program constants
CACHE_LIMIT == 100         \* script.js:288
SEARCH_CACHE_LIMIT == 50   \* script.js:797
HISTORY_LIMIT == 50        \* script.js:357
PREFETCH_FOLDERS == 5      \* script.js:328
virtualScrollThreshold == 1000   \* script.js:10
itemHeight == 36           \* script.js:33
initialVisibleItems == 50  \* script.js:34
bufferItems == 10          \* script.js:35

\* ---------------------------------------------------------------- strings
NULL == <<"null">>             \* the JS value null (no string is equal to it)
UNDEFINED == <<"undefined">>   \* the JS value undefined
BS == "\\"

Falsy(s) == s = NULL \/ s = UNDEFINED \/ s = <<>>

LowerChar(c) ==
    CASE c = "A" -> "a" [] c = "B" -> "b" [] c = "C" -> "c" [] c = "D" -> "d"
      [] c = "Q" -> "q" [] c = "X" -> "x" [] OTHER -> c

ToLowerCase(s) == [i \in 1..Len(s) |-> LowerChar(s[i])]

\* s.replace(/\//g, '\\')
ReplaceSlashes(s) == [i \in 1..Len(s) |-> IF s[i] = "/" THEN BS ELSE s[i]]

RECURSIVE StripTrailingSeparators(_)
\* s.replace(/\\+$/, '')
StripTrailingSeparators(s) ==
    IF s # <<>> /\ s[Len(s)] = BS
    THEN StripTrailingSeparators(SubSeq(s, 1, Len(s) - 1))
    ELSE s

\* navigateToPath, lines 270-271
NormalizePath(raw) ==
    LET p == StripTrailingSeparators(ReplaceSlashes(raw))
    IN  IF Len(p) = 2 /\ p[2] = ":" THEN Append(p, BS) ELSE p

RECURSIVE TrimStart(_)
TrimStart(s) == IF s # <<>> /\ Head(s) = " " THEN TrimStart(Tail(s)) ELSE s

RECURSIVE TrimEnd(_)
TrimEnd(s) == IF s # <<>> /\ s[Len(s)] = " " THEN TrimEnd(SubSeq(s, 1, Len(s) - 1)) ELSE s

\* a trim that removes nothing
TrimNothing(s) == s

\* s.trim()
Trim(s) == TrimEnd(TrimStart(s))

\* s.startsWith(t)
StartsWith(s, t) == Len(t) <= Len(s) /\ SubSeq(s, 1, Len(t)) = t

\* s.includes(t)
Includes(s, t) == \E i \in 1..(Len(s) - Len(t) + 1) : SubSeq(s, i, i + Len(t) - 1) = t

Digit(d) == <<"0", "1", "2", "3", "4", "5", "6", "7", "8", "9">>[d + 1]
Digits3(n) == <<Digit((n \div 100) % 10), Digit((n \div 10) % 10), Digit(n % 10)>>
Digits4(n) == <<Digit((n \div 1000) % 10)>> \o Digits3(n)

\* ------------------------------------------------------------ file system
\* The backend is a black box; this is the directory tree it serves.
ROOT == <<"C", ":", BS>>
DirA == ROOT \o <<"a">>
DirB == DirA \o <<BS, "b">>
DirG == ROOT \o <<"g">>
DirH == ROOT \o <<"h">>
\* the directories visited by the long session that precedes InitWarm
WarmDir(n) == ROOT \o <<"d">> \o Digits3(n)
WarmDirs == {WarmDir(n) : n \in 1..WarmNavs}

Entry(name, path, isFile) == [name |-> name, path |-> path, is_file |-> isFile]

Children(p) ==
    CASE p = ROOT -> <<Entry(<<"f">>, ROOT \o <<"f">>, TRUE), Entry(<<"a">>, DirA, FALSE),
                       Entry(<<"g">>, DirG, FALSE), Entry(<<"h">>, DirH, FALSE)>>
      [] p = DirA -> <<Entry(<<"b">>, DirB, FALSE)>>
      [] OTHER -> <<>>

Exists(p) == p \in {ROOT, DirA, DirB, DirG, DirH} \cup WarmDirs

\* the envelope {success, data, error} of a list call
ListResponses(p) ==
    {[success |-> FALSE, data |-> <<>>]}
        \cup (IF Exists(p) THEN {[success |-> TRUE, data |-> Children(p)]} ELSE {})

\* what the backend can find: three files of the tree above
SearchPool ==
    <<Entry(<<"x", ".", "a", "b", "c">>, DirA \o <<BS, "x", ".", "a", "b", "c">>, TRUE),
      Entry(<<"a", "b", "c">>, ROOT \o <<"a", "b", "c">>, TRUE),
      Entry(<<"z", "-", "a", "b">>, DirB \o <<BS, "z", "-", "a", "b">>, TRUE)>>

RECURSIVE SelectMatches(_, _, _)
\* the entries below `dir` whose name matches `*mid*`, without regard to case
SelectMatches(pool, dir, mid) ==
    IF pool = <<>> THEN <<>>
    ELSE IF StartsWith(Head(pool).path, dir) /\ Includes(ToLowerCase(Head(pool).name), ToLowerCase(mid))
         THEN <<Head(pool)>> \o SelectMatches(Tail(pool), dir, mid)
         ELSE SelectMatches(Tail(pool), dir, mid)

\* the envelope of a search call for a pattern of the form *mid*
SearchResponses(dir, pattern) ==
    {[success |-> FALSE, data |-> <<>>]}
        \cup (IF Exists(dir)
              THEN {[success |-> TRUE,
                     data |-> SelectMatches(SearchPool, dir, SubSeq(pattern, 2, Len(pattern) - 1))]}
              ELSE {})

\* apiCall (lines 1637-1670) either throws (fetch rejected, timeout, HTTP error) or
\* returns the envelope the backend sent
ApiOutcomes(responses) ==
    {[thrown |-> TRUE, value |-> [success |-> FALSE, data |-> <<>>]]}
        \cup {[thrown |-> FALSE, value |-> r] : r \in responses}

\* how an apiCall settled, as the backend and the network decided it
OutcomeKind(out) ==
    IF out.thrown THEN "thrown" ELSE IF out.value.success THEN "ok" ELSE "unsuccessful"

\* ------------------------------------------------------------------ Map
\* A JS Map is a sequence of [k, v] in insertion order.
MapHas(m, k) == \E i \in 1..Len(m) : m[i].k = k
MapGet(m, k) == m[CHOOSE i \in 1..Len(m) : m[i].k = k].v
MapKeys(m) == [i \in 1..Len(m) |-> m[i].k]
\* Map.prototype.set: a present key keeps its place
MapSet(m, k, v) ==
    IF MapHas(m, k)
    THEN [i \in 1..Len(m) |-> IF m[i].k = k THEN [k |-> k, v |-> v] ELSE m[i]]
    ELSE Append(m, [k |-> k, v |-> v])

\* over the limit, the first key of the Map is deleted:
\* m.delete(m.keys().next().value)
EvictOldest(m, limit) == IF Len(m) > limit THEN Tail(m) ELSE m

\* a store that deletes the last key of the Map instead of the first
DirCacheStoreDropsNewest(c, path, data) ==
    LET m == MapSet(c, path, data)
    IN  IF Len(m) > CACHE_LIMIT THEN SubSeq(m, 1, Len(m) - 1) ELSE m

\* navigateToPath lines 286-291: the response is stored under the path
DirCacheStore(c, path, data) == EvictOldest(MapSet(c, path, data), CACHE_LIMIT)

\* a lookup that never finds the path
IsCachedNever(c, path) == FALSE

\* navigateToPath line 280: this.cache.has(path)
IsCached(c, path) == MapHas(c, path)

\* prefetchDirectory line 340: the response is stored under the path
PrefetchStore(c, path, data) == MapSet(c, path, data)

\* a store that keeps no empty result
SearchCacheStoreNonEmpty(c, key, results) ==
    IF results = <<>> THEN c ELSE EvictOldest(MapSet(c, key, results), SEARCH_CACHE_LIMIT)

\* a store without the size limit
SearchCacheStoreUnbounded(c, key, results) == MapSet(c, key, results)

\* performFastSearch lines 794-800: the ranked result is stored under the key
SearchCacheStore(c, key, results) == EvictOldest(MapSet(c, key, results), SEARCH_CACHE_LIMIT)

\* a test that takes every settled call for a success
SucceededAlways(out) == TRUE

\* a test that takes every response that arrived for a success
SucceededUnlessThrown(out) == ~out.thrown

\* `data.success` of a settled apiCall, lines 285, 295 and 339
Succeeded(out) == ~out.thrown /\ out.value.success

\* a guard that lets goBack leave the first entry
CanGoBackFromFirst(h, i) == i >= 0

\* a guard that lets goForward leave the last entry
CanGoForwardPastEnd(h, i) == i < Len(h)

\* the guards of goBack (line 364) and goForward (line 371)
CanGoBack(h, i) == i > 0
CanGoForward(h, i) == i < Len(h) - 1

\* ------------------------------------------------------- pure operations
\* a read of the entry behind the one asked for
HistAtNext(h, i) == IF i + 2 \in 1..Len(h) THEN h[i + 2] ELSE UNDEFINED

\* this.history[i] of JS: undefined outside the array
HistAt(h, i) == IF i + 1 \in 1..Len(h) THEN h[i + 1] ELSE UNDEFINED

\* addToHistory without the splice of line 352
AddToHistoryKeepsForward(h, i, p) ==
    IF HistAt(h, i) = p
    THEN [history |-> h, index |-> i]
    ELSE LET h1 == Append(h, p)
         IN  IF Len(h1) > HISTORY_LIMIT
             THEN [history |-> Tail(h1), index |-> (Len(h1) - 1) - 1]
             ELSE [history |-> h1, index |-> Len(h1) - 1]

\* addToHistory without the index adjustment of line 359
AddToHistoryStaleIndex(h, i, p) ==
    IF HistAt(h, i) = p
    THEN [history |-> h, index |-> i]
    ELSE LET h1 == Append(SubSeq(h, 1, i + 1), p)
         IN  IF Len(h1) > HISTORY_LIMIT
             THEN [history |-> Tail(h1), index |-> Len(h1) - 1]
             ELSE [history |-> h1, index |-> Len(h1) - 1]

\* addToHistory(path), lines 347-361, on (history, historyIndex)
AddToHistory(h, i, p) ==
    IF HistAt(h, i) = p
    THEN [history |-> h, index |-> i]
    ELSE LET h1 == Append(SubSeq(h, 1, i + 1), p)
         IN  IF Len(h1) > HISTORY_LIMIT
             THEN [history |-> Tail(h1), index |-> (Len(h1) - 1) - 1]
             ELSE [history |-> h1, index |-> Len(h1) - 1]

RECURSIVE SelectFolders(_)
\* items.filter(item => !item.is_file)
SelectFolders(items) ==
    IF items = <<>> THEN <<>>
    ELSE IF Head(items).is_file THEN SelectFolders(Tail(items))
         ELSE <<Head(items)>> \o SelectFolders(Tail(items))

RECURSIVE PushUncached(_, _, _)
\* folders.forEach(folder => { if (!cache.has(folder.path)) queue.push(folder.path) })
PushUncached(q, folders, c) ==
    IF folders = <<>> THEN q
    ELSE PushUncached(IF MapHas(c, Head(folders).path) THEN q
                      ELSE Append(q, Head(folders).path),
                      Tail(folders), c)

\* a queuePrefetch that takes every folder of the listing
QueuePrefetchEveryFolder(q, items, c) == PushUncached(q, SelectFolders(items), c)

\* queuePrefetch(items), lines 326-334
QueuePrefetch(q, items, c) ==
    LET all == SelectFolders(items)
        folders == SubSeq(all, 1, IF Len(all) < PREFETCH_FOLDERS THEN Len(all) ELSE PREFETCH_FOLDERS)
    IN  PushUncached(q, folders, c)

\* s.lastIndexOf(c), 0-based, -1 when absent
LastIndexOf(s, c) ==
    LET hits == {i \in 1..Len(s) : s[i] = c}
    IN  IF hits = {} THEN -1 ELSE (CHOOSE i \in hits : \A j \in hits : j <= i) - 1

\* getParentPath(path), lines 392-399
GetParentPath(path) ==
    IF Falsy(path) \/ Len(path) <= 3 THEN NULL
    ELSE LET a == LastIndexOf(path, BS)
             b == LastIndexOf(path, "/")
             lastSlash == IF a > b THEN a ELSE b
         IN  IF lastSlash <= 2 THEN SubSeq(path, 1, 3) ELSE SubSeq(path, 1, lastSlash)

\* a relevance that knows no word boundary
CalculateRelevanceNoBoundary(filename, query) ==
    LET name == ToLowerCase(filename)
        q == ToLowerCase(query)
    IN  IF name = q THEN 1000
        ELSE IF StartsWith(name, q) THEN 800
        ELSE IF Includes(name, q) THEN 400
        ELSE 0

\* calculateRelevance(filename, query), lines 812-830
CalculateRelevance(filename, query) ==
    LET name == ToLowerCase(filename)
        q == ToLowerCase(query)
    IN  IF name = q THEN 1000
        ELSE IF StartsWith(name, q) THEN 800
        ELSE IF Includes(name, <<"_">> \o q) \/ Includes(name, <<"-">> \o q)
                \/ Includes(name, <<" ">> \o q) THEN 600
        ELSE IF Includes(name, q) THEN 400
        ELSE 0

RECURSIVE MergeByPathLastSeen(_, _)
\* a merge that moves a path seen again to the end: delete, then set
MergeByPathLastSeen(all, items) ==
    IF items = <<>> THEN all
    ELSE LET path == Head(items).path
             rest == SelectSeq(all, LAMBDA e : e.k # path)
         IN  MergeByPathLastSeen(Append(rest, [k |-> path, v |-> Head(items)]), Tail(items))

RECURSIVE MergeByPath(_, _)
\* result.value.data.forEach(item => allItems.set(item.path, item)), lines 778-780
MergeByPath(all, items) ==
    IF items = <<>> THEN all
    ELSE MergeByPath(MapSet(all, Head(items).path, Head(items)), Tail(items))

RECURSIVE MergeResults(_, _)
\* lines 774-784: the fulfilled, successful results merged in the order of the queries
MergeResults(all, outs) ==
    IF outs = <<>> THEN [i \in 1..Len(all) |-> all[i].v]
    ELSE MergeResults(IF Succeeded(Head(outs))
                      THEN MergeByPath(all, Head(outs).value.data) ELSE all,
                      Tail(outs))

RECURSIVE InsertRankedFirst(_, _, _)
\* x placed before every item that does not rank above it
InsertRankedFirst(sorted, x, query) ==
    IF sorted = <<>> THEN <<x>>
    ELSE IF CalculateRelevance(x.name, query) >= CalculateRelevance(Head(sorted).name, query)
         THEN <<x>> \o sorted
         ELSE <<Head(sorted)>> \o InsertRankedFirst(Tail(sorted), x, query)

RECURSIVE InsertRanked(_, _, _)
\* x placed behind every item that does not rank below it
InsertRanked(sorted, x, query) ==
    IF sorted = <<>> THEN <<x>>
    ELSE IF CalculateRelevance(x.name, query) > CalculateRelevance(Head(sorted).name, query)
         THEN <<x>> \o sorted
         ELSE <<Head(sorted)>> \o InsertRanked(Tail(sorted), x, query)

RECURSIVE SortByRelevance(_, _, _)
\* finalResults.sort((a, b) => relevance(b) - relevance(a)), lines 787-791 (stable)
SortByRelevance(done, items, query) ==
    IF items = <<>> THEN done
    ELSE SortByRelevance(InsertRanked(done, Head(items), query), Tail(items), query)

\* a cache key that keeps the letter case of the query
SearchKeyCaseSensitive(path, query) ==
    (IF Falsy(path) THEN <<"r", "o", "o", "t">> ELSE path) \o <<":">> \o query

\* the cache key of performFastSearch, line 742
SearchKey(path, query) ==
    (IF Falsy(path) THEN <<"r", "o", "o", "t">> ELSE path) \o <<":">> \o ToLowerCase(query)

\* the directory a search call names, lines 758 and 767
SearchDirectory(path) == IF Falsy(path) THEN <<"C", ":", BS>> ELSE path

\* both patterns, whatever the length of the query
SearchPatternsBoth(query) ==
    <<(<<"*">> \o query) \o <<"*">>, (<<"*", ".">> \o query) \o <<"*">>>>

\* the patterns performFastSearch issues for a query, lines 756-771
SearchPatterns(query) ==
    <<(<<"*">> \o query) \o <<"*">>>>
        \o (IF Len(query) > 2 THEN <<(<<"*", ".">> \o query) \o <<"*">>>> ELSE <<>>)

\* ---------------------------------------------------------------- file list
\* the characters of the fixture's names in the order of the root collation that
\* String.prototype.localeCompare applies: space, punctuation, digits, letters
CollationOrder ==
    <<" ", "_", "-", ".", "0", "1", "2", "3", "4", "5", "6", "7", "8", "9",
      "a", "b", "c", "d", "e", "f", "g", "h", "i", "j", "k", "l", "m", "n", "o", "p",
      "q", "r", "s", "t", "u", "v", "w", "x", "y", "z">>

\* the place of each of these characters in that order
CollationIndex ==
    [c \in {CollationOrder[i] : i \in 1..Len(CollationOrder)} |->
        CHOOSE i \in 1..Len(CollationOrder) : CollationOrder[i] = c]

CollationRank(c) == CollationIndex[LowerChar(c)]

RECURSIVE PrimaryCompare(_, _)
\* the first level of the comparison: letters without their case; -1, 0 or 1
PrimaryCompare(a, b) ==
    IF a = <<>> THEN (IF b = <<>> THEN 0 ELSE -1)
    ELSE IF b = <<>> THEN 1
    ELSE IF Head(a) = Head(b) THEN PrimaryCompare(Tail(a), Tail(b))
    ELSE IF CollationRank(Head(a)) < CollationRank(Head(b)) THEN -1
    ELSE IF CollationRank(Head(a)) > CollationRank(Head(b)) THEN 1
    ELSE PrimaryCompare(Tail(a), Tail(b))

RECURSIVE CaseCompare(_, _)
\* the last level, for names equal up to case: lower case first
CaseCompare(a, b) ==
    IF a = <<>> \/ b = <<>> THEN 0
    ELSE IF Head(a) = Head(b) THEN CaseCompare(Tail(a), Tail(b))
    ELSE IF Head(a) = LowerChar(Head(a)) THEN -1 ELSE 1

\* a.localeCompare(b), lines 519-520
LocaleCompare(a, b) ==
    LET primary == PrimaryCompare(a, b)
    IN  IF primary # 0 THEN primary ELSE CaseCompare(a, b)

RECURSIVE InsertByName(_, _)
\* x placed behind every item whose name does not follow its own
InsertByName(sorted, x) ==
    IF sorted = <<>> THEN <<x>>
    ELSE IF LocaleCompare(x.name, Head(sorted).name) < 0 THEN <<x>> \o sorted
    ELSE <<Head(sorted)>> \o InsertByName(Tail(sorted), x)

RECURSIVE SortByNameFrom(_, _)
SortByNameFrom(done, items) ==
    IF items = <<>> THEN done
    ELSE SortByNameFrom(InsertByName(done, Head(items)), Tail(items))

\* items.sort((a, b) => a.name.localeCompare(b.name)), lines 519-520: a stable
\* sort, which returns a sorted array as it is
SortByName(items) ==
    IF \A i \in 1..(Len(items) - 1) : LocaleCompare(items[i].name, items[i + 1].name) <= 0
    THEN items
    ELSE SortByNameFrom(<<>>, items)

IsFile(item) == item.is_file
IsFolder(item) == ~item.is_file

\* what the element fileList shows: spacers of `top` and `bottom` pixels around
\* the rows of `items`
Shown(kind, top, items, bottom) ==
    [kind |-> kind, top |-> top, items |-> items, bottom |-> bottom]

\* array.slice(startIndex, endIndex) for 0 <= startIndex
Slice(items, startIndex, endIndex) ==
    SubSeq(items, startIndex + 1, IF endIndex < Len(items) THEN endIndex ELSE Len(items))

\* renderVirtualItems(startIndex, endIndex), lines 459-477
RenderVirtualItems(items, startIndex, endIndex) ==
    Shown("window", startIndex * itemHeight, Slice(items, startIndex, endIndex),
          (Len(items) - endIndex) * itemHeight)

\* renderAllItems(items), lines 504-534: folders, then files, each by name
RenderAllItems(items) ==
    Shown("all", 0, SortByName(SelectSeq(items, IsFolder)) \o SortByName(SelectSeq(items, IsFile)), 0)

\* renderFileList(items) below line 480, lines 481-502
RenderFileList(items, view, visible) ==
    IF Len(items) = 0 THEN Shown("empty", 0, <<>>, 0)
    ELSE IF view = "list" /\ Len(items) > virtualScrollThreshold
         THEN RenderVirtualItems(items, 0, visible)
         ELSE RenderAllItems(items)

\* the window that forgets the buffer
WindowOfNoBuffer(items, offset, visible) ==
    LET startIndex == offset \div itemHeight
        reach == startIndex + visible
    IN  [startIndex |-> startIndex,
         endIndex |-> IF reach < Len(items) THEN reach ELSE Len(items)]

\* the first index and the end index handleVirtualScroll computes, lines 450-454
WindowOf(items, offset, visible) ==
    LET startIndex == offset \div itemHeight
        reach == startIndex + visible + bufferItems
    IN  [startIndex |-> startIndex,
         endIndex |-> IF reach < Len(items) THEN reach ELSE Len(items)]

\* Math.ceil(clientHeight / itemHeight), lines 1140-1142
VisibleRows(height) == (height + itemHeight - 1) \div itemHeight

\* the height of what fileList shows, each row itemHeight pixels high
ContentHeight(shown) == shown.top + itemHeight * Len(shown.items) + shown.bottom

\* the largest scrollTop the element fileList can take
ScrollExtent(shown, height) ==
    IF ContentHeight(shown) > height THEN ContentHeight(shown) - height ELSE 0

\* ------------------------------------------------------------------ state
VARIABLES
    isOnline,        \* this.isOnline
    cache,           \* this.cache: Map path -> list response
    prefetchQueue,   \* this.prefetchQueue
    history,         \* this.history
    historyIndex,    \* this.historyIndex (0-based, -1 when empty)
    currentPath,     \* this.currentPath
    currentItems,    \* this.currentItems, the item set handed to renderFileList
    isSearchMode,    \* this.isSearchMode
    searchQuery,     \* this.searchQuery
    searchCache,     \* this.searchCache: Map key -> ranked result
    status,          \* severity of the last showStatus
    pending,         \* API requests awaiting their response, in order of issue
    ev,              \* the handler or continuation that ran last
    arg,             \* the path or the query it was called with (NULL: none)
    navTarget,       \* the path of the most recently requested navigation
    dirInserted,     \* keys added to the directory cache since it was last cleared
    dirPrefetched,   \* a prefetch added a key to the directory cache since then
    searchInserted,  \* keys added to the search cache since it was last cleared
    settled,         \* how the calls of the search that returned last settled
    trail,           \* the steps that changed the state since Init, while few
    budget,          \* state-changing commands the model still allows
    currentView,     \* this.currentView
    visibleItems,    \* this.virtualScroll.visibleItems
    clientHeight,    \* the height of the element fileList
    scrollTop,       \* the scroll offset of the element fileList
    inThrottle,      \* the flag of throttle() around the scroll listener
    rendered,        \* what the element fileList shows
    audioPlayer,     \* this.audioPlayer: audio, isPlaying, currentFile, analyser, animationId
    audios,          \* the Audio elements created so far, by number
    frames,          \* the handles of the animation frames requested and not yet run
    frameCount,      \* animation frames requested so far
    loads,           \* the calls of loadAudioFile that await something
    waveform,        \* what the waveform canvas shows
    playerHidden,    \* the audio player panel is hidden
    control,         \* the playback control that acted last
    session,         \* the calls of loadAudioFile so far, and whose waveform is drawn
    selectedItems,   \* this.selectedItems: a Set, in insertion order
    clipboard,       \* this.clipboard: items, operation
    ops,             \* the calls of pasteItems, deleteSelectedItems, createNew* that await
    finished,        \* the file operation that ended last, and the clipboard it had found
    preRefresh,      \* how many requests at the head of `pending` predate the last refresh
    fnIn,            \* the arguments a function is applied to, when one is
    fnOut            \* <<its result>>, once it has been applied

vars == <<isOnline, cache, prefetchQueue, history, historyIndex, currentPath,
          currentItems, isSearchMode, searchQuery, searchCache, status, pending,
          ev, arg, navTarget, dirInserted, dirPrefetched, searchInserted, settled, trail,
          budget, currentView, visibleItems, clientHeight, scrollTop, inThrottle,
          rendered, audioPlayer, audios, frames, frameCount, loads, waveform,
          playerHidden, control, session, selectedItems, clipboard, ops, finished,
          preRefresh, fnIn, fnOut>>

\* the selection, the clipboard and the file operations in progress
fileVars == <<selectedItems, clipboard, ops, finished>>

\* the fields of the engine that the list, the player and a function leave alone
engineVars == <<isOnline, cache, prefetchQueue, history, historyIndex, currentPath,
                isSearchMode, searchQuery, searchCache, pending, navTarget, dirInserted,
                dirPrefetched, searchInserted, settled, trail, budget, selectedItems,
                clipboard, ops, finished, preRefresh>>

listVars == <<currentView, visibleItems, clientHeight, scrollTop, inThrottle, rendered>>

playerVars == <<audioPlayer, audios, frames, frameCount, loads, waveform, playerHidden,
                control, session>>

fnVars == <<fnIn, fnOut>>

\* the height of the element fileList when the page opens
OpeningHeight == 720

\* the list as the constructor leaves it (lines 10, 18, 32-37): nothing rendered
ListConstructed ==
    /\ currentView = "list"
    /\ visibleItems = initialVisibleItems
    /\ clientHeight = OpeningHeight
    /\ scrollTop = 0
    /\ inThrottle = FALSE

\* this.audioPlayer as the constructor leaves it (lines 46-56): 0 stands for null
PlayerConstructed ==
    /\ audioPlayer = [audio |-> 0, isPlaying |-> FALSE, currentFile |-> NULL,
                      analyser |-> 0, animationId |-> 0]
    /\ audios = <<>>
    /\ frames = {}
    /\ frameCount = 0
    /\ loads = <<>>
    /\ waveform = "none"
    /\ playerHidden = TRUE
    /\ control = "none"
    /\ session = [requested |-> NULL, issued |-> 0, returned |-> 0, newest |-> 0,
                  drawn |-> NULL]

\* no function is being applied
NothingApplied == fnIn = <<>> /\ fnOut = <<>>

searchVars == <<isSearchMode, searchQuery, searchCache, searchInserted>>

Event(op, nav, add) == [op |-> op, nav |-> nav, add |-> add]

Request(kind, path, add, query, key) ==
    [kind |-> kind, path |-> path, add |-> add, query |-> query, key |-> key]

RemoveAt(s, i) == SubSeq(s, 1, i - 1) \o SubSeq(s, i + 1, Len(s))

\* the selection and the clipboard as the constructor leaves them (lines 19,
\* 39-43; "null" stands for the operation null), no file operation in progress
FilesConstructed ==
    /\ selectedItems = <<>>
    /\ clipboard = [items |-> <<>>, operation |-> "null"]
    /\ ops = <<>>
    /\ finished = [kind |-> "none", failed |-> FALSE,
                   before |-> [items |-> <<>>, operation |-> "null"]]
    /\ preRefresh = 0

\* the engine as the constructor leaves it (lines 2-29)
EngineConstructed ==
    /\ isOnline = FALSE
    /\ cache = <<>>
    /\ prefetchQueue = <<>>
    /\ history = <<>>
    /\ historyIndex = -1
    /\ currentPath = NULL
    /\ currentItems = UNDEFINED
    /\ isSearchMode = FALSE
    /\ searchQuery = <<>>
    /\ searchCache = <<>>
    /\ status = "none"
    /\ pending = <<>>
    /\ ev = Event("constructor", "none", FALSE)
    /\ arg = NULL
    /\ navTarget = NULL
    /\ dirInserted = <<>>
    /\ dirPrefetched = FALSE
    /\ searchInserted = <<>>
    /\ settled = <<>>
    /\ trail = <<>>
    /\ budget = MaxCommands
    /\ FilesConstructed

\* the object the constructor leaves (lines 2-59)
Constructed ==
    /\ EngineConstructed
    /\ ListConstructed
    /\ rendered = Shown("none", 0, <<>>, 0)
    /\ PlayerConstructed

\* the state the constructor leaves
Init == Constructed /\ NothingApplied

\* The state a long session leaves: the backend reachable, WarmNavs directories
\* visited one after the other from the address bar (each a cache miss that
\* succeeds, each an empty directory), then WarmSearches queries searched in the
\* last of them (each a cache miss without a match).
WarmQuery(n) == <<"q">> \o Digits3(n)

\* the last n elements of s
LastN(s, n) == IF Len(s) > n THEN SubSeq(s, Len(s) - n + 1, Len(s)) ELSE s

WarmVisited == [n \in 1..WarmNavs |-> WarmDir(n)]
WarmSearched == [n \in 1..WarmSearches |-> SearchKey(WarmDir(WarmNavs), WarmQuery(n))]

InitWarm ==
    /\ isOnline = TRUE
    /\ cache = LastN([n \in 1..WarmNavs |->
                         [k |-> WarmDir(n), v |-> [success |-> TRUE, data |-> <<>>]]],
                     CACHE_LIMIT)
    /\ prefetchQueue = <<>>
    /\ history = LastN(WarmVisited, HISTORY_LIMIT)
    /\ historyIndex = Len(LastN(WarmVisited, HISTORY_LIMIT)) - 1
    /\ currentPath = WarmDir(WarmNavs)
    /\ currentItems = <<>>
    /\ isSearchMode = TRUE
    /\ searchQuery = WarmQuery(WarmSearches)
    /\ searchCache = LastN([n \in 1..WarmSearches |-> [k |-> WarmSearched[n], v |-> <<>>]],
                           SEARCH_CACHE_LIMIT)
    /\ status = "success"
    /\ pending = <<>>
    /\ ev = Event("searchReturns", "rendered", FALSE)
    /\ arg = NULL
    /\ navTarget = WarmDir(WarmNavs)
    /\ dirInserted = WarmVisited
    /\ dirPrefetched = FALSE
    /\ searchInserted = WarmSearched
    /\ settled = <<"ok">>
    /\ trail = <<>>
    /\ budget = MaxWarmCommands
    /\ FilesConstructed
    /\ ListConstructed
    /\ rendered = RenderFileList(<<>>, "list", initialVisibleItems)
    /\ PlayerConstructed
    /\ NothingApplied

\* The state a short session leaves: the backend reachable and ROOT, DirA and DirB
\* visited one after the other from a fresh start, the idle callback draining the
\* prefetch queue after each navigation and every call succeeding before the next
\* step: ROOT is a cache miss, its folders are prefetched, DirA is served from the
\* cache, its folder DirB is prefetched and then served from the cache.
Listing(p) == [success |-> TRUE, data |-> Children(p)]

RECURSIVE PrefetchAll(_, _)
\* the directory cache after every path of the queue q was prefetched with success
PrefetchAll(c, q) ==
    IF q = <<>> THEN c ELSE PrefetchAll(PrefetchStore(c, Head(q), Listing(Head(q))), Tail(q))

InitTour ==
    LET c1 == DirCacheStore(<<>>, ROOT, Listing(ROOT))
        h1 == AddToHistory(<<>>, -1, ROOT)
        c2 == PrefetchAll(c1, QueuePrefetch(<<>>, Children(ROOT), c1))
        h2 == AddToHistory(h1.history, h1.index, DirA)
        c3 == PrefetchAll(c2, QueuePrefetch(<<>>, Children(DirA), c2))
        h3 == AddToHistory(h2.history, h2.index, DirB)
        c4 == PrefetchAll(c3, QueuePrefetch(<<>>, Children(DirB), c3))
    IN  /\ isOnline = TRUE
        /\ cache = c4
        /\ prefetchQueue = <<>>
        /\ history = h3.history
        /\ historyIndex = h3.index
        /\ currentPath = DirB
        /\ currentItems = Children(DirB)
        /\ isSearchMode = FALSE
        /\ searchQuery = <<>>
        /\ searchCache = <<>>
        /\ status = "success"
        /\ pending = <<>>
        /\ ev = Event("navigate", "hit", TRUE)
        /\ arg = DirB
        /\ navTarget = DirB
        /\ dirInserted = MapKeys(c4)
        /\ dirPrefetched = TRUE
        /\ searchInserted = <<>>
        /\ settled = <<>>
        /\ trail = <<>>
        /\ budget = MaxTourCommands
        /\ FilesConstructed
        /\ ListConstructed
        /\ rendered = RenderFileList(Children(DirB), "list", initialVisibleItems)
        /\ PlayerConstructed
        /\ NothingApplied

progVars == <<isOnline, cache, prefetchQueue, history, historyIndex, currentPath,
              currentItems, isSearchMode, searchQuery, searchCache, status, pending>>

\* the trail once more than MaxTrail steps have changed the state
Forgotten == <<<<"forgotten", "forgotten">>>>

\* the trail after one more step e = <<op, outcome>>
Log(e) == IF trail = Forgotten \/ Len(trail) >= MaxTrail THEN Forgotten ELSE Append(trail, e)

\* the step called renderFileList (lines 306, 745, 802)
Renders(e) ==
    \/ e.nav \in {"hit", "cacheHit", "rendered"}
    \/ (e.op = "listReturns" /\ e.nav = "ok")

\* what a step of the engine does to the list, and that it leaves the player alone:
\* renderFileList replaces the content of fileList, whose scroll offset the
\* browser keeps within the new content
Painted ==
    /\ rendered' = IF Renders(ev')
                   THEN RenderFileList(currentItems', currentView, visibleItems)
                   ELSE rendered
    /\ scrollTop' = IF scrollTop > ScrollExtent(rendered', clientHeight)
                    THEN ScrollExtent(rendered', clientHeight) ELSE scrollTop
    /\ UNCHANGED <<currentView, visibleItems, clientHeight, inThrottle>>
    /\ UNCHANGED playerVars
    /\ UNCHANGED fnVars

\* a command of the user or of a timer has run: the model allows `budget` of them
\* to change the program's state (a command that is a no-op is not counted)
Command ==
    /\ settled' = settled
    /\ Painted
    /\ UNCHANGED fileVars
    /\ preRefresh' = IF ev'.op = "refreshTree" THEN Len(pending) ELSE preRefresh
    /\ IF UNCHANGED progVars
       THEN budget' = budget /\ trail' = trail
       ELSE budget > 0 /\ budget' = budget - 1 /\ trail' = Log(<<ev'.op, ev'.nav>>)

\* a continuation (the return of an API call, a turn of the idle callback) has run
Logged ==
    /\ trail' = Log(<<ev'.op, ev'.nav>>)
    /\ budget' = budget
    /\ arg' = NULL
    /\ Painted
    /\ UNCHANGED fileVars

\* the request at place i of `pending` was answered: the requests that predate
\* the last refresh are those at the head of `pending`
Answered(i) == preRefresh' = IF i <= preRefresh THEN preRefresh - 1 ELSE preRefresh

\* -------------------------------------------------------------- navigation
\* navigateToPath lines 295-316: the listing `data` of `p` is applied; c1 is the
\* directory cache and hi the history index the continuation finds.  The await of
\* line 310 (updateFolderTree, lines 715-719, which awaits nothing and changes no
\* field) only defers lines 313-316 to the end of the same task: one step.
NavApply(p, add, data, c1, hi) ==
    LET ah == IF add THEN AddToHistory(history, hi, p)
              ELSE [history |-> history, index |-> hi]
        q == QueuePrefetch(prefetchQueue, data.data, c1)
    IN  /\ cache' = c1
        /\ currentPath' = p
        /\ history' = ah.history
        /\ historyIndex' = ah.index
        /\ currentItems' = data.data
        /\ prefetchQueue' = q
        /\ status' = "success"

\* navigateToPath(raw, add) up to its first suspension (lines 266-284), called by
\* handler `op` that has left the directory cache as c0 and the history index as hi
NavCall(op, raw, add, c0, hi) ==
    IF Falsy(raw) \/ ~isOnline
    THEN /\ cache' = c0
         /\ historyIndex' = hi
         /\ ev' = Event(op, "rejected", add)
         /\ UNCHANGED <<currentPath, history, currentItems, prefetchQueue, status,
                        pending, navTarget>>
    ELSE LET p == NormalizePath(raw)
         IN  /\ navTarget' = p
             /\ IF IsCached(c0, p)
                THEN /\ NavApply(p, add, MapGet(c0, p), c0, hi)
                     /\ ev' = Event(op, "hit", add)
                     /\ UNCHANGED pending
                ELSE /\ Len(pending) < MaxPending
                     /\ pending' = Append(pending, Request("list", p, add, <<>>, <<>>))
                     /\ status' = "loading"
                     /\ cache' = c0
                     /\ historyIndex' = hi
                     /\ ev' = Event(op, "miss", add)
                     /\ UNCHANGED <<currentPath, history, currentItems, prefetchQueue>>

\* what the address bar, a breadcrumb, a double click or selectDrive may pass
NavInputs == {<<>>, <<BS>>, <<"C", ":">>, <<"C", ":", "/", "a">>, DirB \o <<BS>>}

\* navigateToPath(raw) called from the UI (lines 128, 131, 263, 388, 427, 676)
Navigate ==
    \E raw \in NavInputs :
        /\ NavCall("navigate", raw, TRUE, cache, historyIndex)
        /\ arg' = raw
        /\ UNCHANGED <<isOnline, searchVars, dirInserted, dirPrefetched>>
    /\ Command

\* the list call of navigateToPath returns (lines 284-323); when a file operation
\* awaited the navigation, its message of success follows at once (lines 1045,
\* 1067, 1086, 1105) and is the status that stays
ListReturns ==
    \E i \in 1..Len(pending) : \E out \in ApiOutcomes(ListResponses(pending[i].path)) :
        LET req == pending[i]
            data == out.value
        IN  /\ req.kind = "list"
            /\ pending' = RemoveAt(pending, i)
            /\ IF Succeeded(out)
               THEN /\ NavApply(req.path, req.add, data,
                                DirCacheStore(cache, req.path, data), historyIndex)
                    /\ dirInserted' = IF MapHas(cache, req.path) THEN dirInserted
                                      ELSE Append(dirInserted, req.path)
               ELSE /\ status' = IF req.key = <<>> THEN "error" ELSE "success"
                    /\ UNCHANGED <<cache, currentPath, history, historyIndex, currentItems,
                                   prefetchQueue, dirInserted>>
            /\ ev' = Event("listReturns", OutcomeKind(out), req.add)
            /\ Logged
            /\ Answered(i)
            /\ UNCHANGED <<isOnline, searchVars, navTarget, dirPrefetched, settled>>

\* goBack(), lines 363-368
GoBack ==
    /\ IF CanGoBack(history, historyIndex)
       THEN NavCall("goBack", HistAt(history, historyIndex - 1), FALSE, cache, historyIndex - 1)
       ELSE /\ ev' = Event("goBack", "none", FALSE)
            /\ UNCHANGED <<cache, historyIndex, currentPath, history, currentItems,
                           prefetchQueue, status, pending, navTarget>>
    /\ arg' = NULL
    /\ UNCHANGED <<isOnline, searchVars, dirInserted, dirPrefetched>>
    /\ Command

\* goForward(), lines 370-375
GoForward ==
    /\ IF CanGoForward(history, historyIndex)
       THEN NavCall("goForward", HistAt(history, historyIndex + 1), FALSE, cache, historyIndex + 1)
       ELSE /\ ev' = Event("goForward", "none", FALSE)
            /\ UNCHANGED <<cache, historyIndex, currentPath, history, currentItems,
                           prefetchQueue, status, pending, navTarget>>
    /\ arg' = NULL
    /\ UNCHANGED <<isOnline, searchVars, dirInserted, dirPrefetched>>
    /\ Command

\* goUp(), lines 377-384
GoUp ==
    LET parentPath == GetParentPath(currentPath)
    IN  /\ IF ~Falsy(currentPath) /\ ~Falsy(parentPath) /\ parentPath # currentPath
           THEN NavCall("goUp", parentPath, TRUE, cache, historyIndex)
           ELSE /\ ev' = Event("goUp", "none", FALSE)
                /\ UNCHANGED <<cache, historyIndex, currentPath, history, currentItems,
                               prefetchQueue, status, pending, navTarget>>
        /\ arg' = NULL
        /\ UNCHANGED <<isOnline, searchVars, dirInserted, dirPrefetched>>
    /\ Command

\* a refresh that forgets to clear the directory cache
RefreshTreeKeepsCache ==
    /\ IF ~Falsy(currentPath)
       THEN NavCall("refreshTree", currentPath, FALSE, cache, historyIndex)
       ELSE /\ ev' = Event("refreshTree", "none", FALSE)
            /\ UNCHANGED <<cache, historyIndex, currentPath, history, currentItems,
                           prefetchQueue, status, pending, navTarget>>
    /\ arg' = NULL
    /\ UNCHANGED <<isOnline, searchVars, dirInserted, dirPrefetched>>
    /\ Command

\* refreshTree(), lines 721-726
RefreshTree ==
    /\ IF ~Falsy(currentPath)
       THEN NavCall("refreshTree", currentPath, FALSE, <<>>, historyIndex)
       ELSE /\ cache' = <<>>
            /\ ev' = Event("refreshTree", "none", FALSE)
            /\ UNCHANGED <<historyIndex, currentPath, history, currentItems,
                           prefetchQueue, status, pending, navTarget>>
    /\ dirInserted' = <<>>
    /\ dirPrefetched' = FALSE
    /\ arg' = NULL
    /\ UNCHANGED <<isOnline, searchVars>>
    /\ Command

\* checkConnection() resolves and calls setConnectionStatus(online), lines 88-116
CheckConnection ==
    \E online \in BOOLEAN :
        /\ isOnline' = online
        /\ status' = IF isOnline = online THEN status
                     ELSE IF online THEN "success" ELSE "error"
        /\ ev' = Event("checkConnection", "none", FALSE)
        /\ arg' = NULL
        /\ UNCHANGED <<cache, prefetchQueue, history, historyIndex, currentPath,
                       currentItems, searchVars, pending, navTarget, dirInserted,
                       dirPrefetched>>
        /\ Command

\* --------------------------------------------------------------- prefetch
\* one turn of the loop of prefetchWork (lines 78-81): a path leaves the queue and
\* prefetchDirectory issues its list call (line 338)
PrefetchWork ==
    /\ prefetchQueue # <<>>
    /\ Len(pending) < MaxPending
    /\ prefetchQueue' = Tail(prefetchQueue)
    /\ pending' = Append(pending, Request("prefetch", Head(prefetchQueue), FALSE, <<>>, <<>>))
    /\ ev' = Event("prefetchWork", "none", FALSE)
    /\ Logged
    /\ UNCHANGED preRefresh
    /\ UNCHANGED <<isOnline, cache, history, historyIndex, currentPath, currentItems,
                   searchVars, status, navTarget, dirInserted, dirPrefetched, settled>>

\* the list call of prefetchDirectory returns (lines 338-344)
PrefetchReturns ==
    \E i \in 1..Len(pending) : \E out \in ApiOutcomes(ListResponses(pending[i].path)) :
        LET req == pending[i]
            data == out.value
            stored == Succeeded(out)
        IN  /\ req.kind = "prefetch"
            /\ pending' = RemoveAt(pending, i)
            /\ cache' = IF stored THEN PrefetchStore(cache, req.path, data) ELSE cache
            /\ dirInserted' = IF stored /\ ~MapHas(cache, req.path)
                              THEN Append(dirInserted, req.path) ELSE dirInserted
            /\ dirPrefetched' = (dirPrefetched \/ (stored /\ ~MapHas(cache, req.path)))
            /\ ev' = Event("prefetchReturns", OutcomeKind(out), FALSE)
            /\ Logged
            /\ Answered(i)
            /\ UNCHANGED <<isOnline, prefetchQueue, history, historyIndex, currentPath,
                           currentItems, searchVars, status, navTarget, settled>>

\* ----------------------------------------------------------------- search
\* what the search box may hold
SearchInputs == {<<" ">>, <<"a", "b">>, <<"A", "B">>, <<"a", "b", "c">>}

\* performFastSearch(query) up to its first suspension (lines 728-773)
PerformFastSearch ==
    \E query \in SearchInputs :
        /\ IF Trim(query) = <<>>
           THEN /\ isSearchMode' = FALSE
                /\ searchCache' = <<>>
                /\ searchInserted' = <<>>
                /\ UNCHANGED searchQuery
                /\ IF ~Falsy(currentPath)
                   THEN NavCall("search", currentPath, FALSE, cache, historyIndex)
                   ELSE /\ ev' = Event("search", "none", FALSE)
                        /\ UNCHANGED <<cache, historyIndex, currentPath, history,
                                       currentItems, prefetchQueue, status, pending,
                                       navTarget>>
           ELSE LET cacheKey == SearchKey(currentPath, query)
                IN  /\ isSearchMode' = TRUE
                    /\ searchQuery' = query
                    /\ IF MapHas(searchCache, cacheKey)
                       THEN /\ currentItems' = MapGet(searchCache, cacheKey)
                            /\ status' = "success"
                            /\ ev' = Event("search", "cacheHit", FALSE)
                            /\ UNCHANGED pending
                       ELSE /\ Len(pending) < MaxPending
                            /\ pending' = Append(pending,
                                   Request("search", currentPath, FALSE, query, cacheKey))
                            /\ status' = "loading"
                            /\ ev' = Event("search", "issued", FALSE)
                            /\ UNCHANGED currentItems
                    /\ UNCHANGED <<searchCache, searchInserted, cache, historyIndex,
                                   currentPath, history, prefetchQueue, navTarget>>
        /\ arg' = query
        /\ UNCHANGED <<isOnline, dirInserted, dirPrefetched>>
        /\ Command

\* every way the search calls of one performFastSearch can settle
SearchOutcomes(dir, patterns) ==
    {outs \in [1..Len(patterns) -> ApiOutcomes(UNION {SearchResponses(dir, patterns[j]) :
                                                       j \in 1..Len(patterns)})] :
        \A j \in 1..Len(patterns) :
            outs[j].thrown \/ outs[j].value \in SearchResponses(dir, patterns[j])}

\* Promise.allSettled of performFastSearch resolves (lines 773-804)
SearchReturns ==
    \E i \in 1..Len(pending) :
        /\ pending[i].kind = "search"
        /\ \E outs \in SearchOutcomes(SearchDirectory(pending[i].path),
                                      SearchPatterns(pending[i].query)) :
            LET req == pending[i]
                finalResults == SortByRelevance(<<>>, MergeResults(<<>>, outs), req.query)
            IN  /\ pending' = RemoveAt(pending, i)
                /\ searchCache' = SearchCacheStore(searchCache, req.key, finalResults)
                /\ searchInserted' = IF MapHas(searchCache, req.key) THEN searchInserted
                                     ELSE Append(searchInserted, req.key)
                /\ currentItems' = finalResults
                /\ status' = "success"
                /\ ev' = Event("searchReturns", "rendered", FALSE)
                /\ settled' = [j \in 1..Len(outs) |-> OutcomeKind(outs[j])]
                /\ Logged
                /\ Answered(i)
                /\ UNCHANGED <<isOnline, cache, prefetchQueue, history, historyIndex,
                               currentPath, isSearchMode, searchQuery, navTarget,
                               dirInserted, dirPrefetched>>

Next ==
    \/ PerformFastSearch
    \/ SearchReturns
    \/ Navigate
    \/ ListReturns
    \/ GoBack
    \/ GoForward
    \/ GoUp
    \/ RefreshTree
    \/ CheckConnection
    \/ PrefetchWork
    \/ PrefetchReturns

Spec == Init /\ [][Next]_vars

\* the same program, observed from the end of the long session
SpecWarm == InitWarm /\ [][Next]_vars

\* both: a fresh session and a long one
SpecAny == (Init \/ InitWarm) /\ [][Next]_vars

\* the same program, observed after the three navigations of a short session
SpecTour == InitTour /\ [][Next]_vars

\* -------------------------------------------------------- file operations
\* The state a visit of C:\ leaves: the backend reachable, ROOT a cache miss that
\* succeeded, its folders prefetched with success.
InitFiles ==
    LET c1 == DirCacheStore(<<>>, ROOT, Listing(ROOT))
        h1 == AddToHistory(<<>>, -1, ROOT)
        c2 == PrefetchAll(c1, QueuePrefetch(<<>>, Children(ROOT), c1))
    IN  /\ isOnline = TRUE
        /\ cache = c2
        /\ prefetchQueue = <<>>
        /\ history = h1.history
        /\ historyIndex = h1.index
        /\ currentPath = ROOT
        /\ currentItems = Children(ROOT)
        /\ isSearchMode = FALSE
        /\ searchQuery = <<>>
        /\ searchCache = <<>>
        /\ status = "success"
        /\ pending = <<>>
        /\ ev = Event("prefetchReturns", "ok", FALSE)
        /\ arg = NULL
        /\ navTarget = ROOT
        /\ dirInserted = MapKeys(c2)
        /\ dirPrefetched = TRUE
        /\ searchInserted = <<>>
        /\ settled = <<>>
        /\ trail = <<>>
        /\ budget = MaxFileCommands
        /\ FilesConstructed
        /\ ListConstructed
        /\ rendered = RenderFileList(Children(ROOT), "list", initialVisibleItems)
        /\ PlayerConstructed
        /\ NothingApplied

\* the mark of a list call that a file operation awaits
AWAITED == <<"o", "p">>

\* a call of a file operation: its kind, the array it iterates, the place of the
\* request in flight, whether a request was answered with a failure so far, and
\* the clipboard the call found
Operation(kind, items, clip) ==
    [kind |-> kind, items |-> items, at |-> 1, failed |-> FALSE, before |-> clip]

\* what a step of a file operation leaves alone
FilesOnly ==
    /\ UNCHANGED <<isOnline, searchVars, dirInserted, dirPrefetched, settled, preRefresh>>
    /\ Painted

\* the step did not call navigateToPath
NoNavigation ==
    UNCHANGED <<cache, prefetchQueue, history, historyIndex, currentPath, currentItems,
                pending, navTarget>>

\* a command of the user on the files has run
FileCommand ==
    /\ FilesOnly
    /\ IF UNCHANGED <<progVars, fileVars>>
       THEN budget' = budget /\ trail' = trail
       ELSE budget > 0 /\ budget' = budget - 1 /\ trail' = Log(<<ev'.op, ev'.nav>>)

\* the continuation of a file operation has run
FileResumed == FilesOnly /\ budget' = budget /\ trail' = Log(<<ev'.op, ev'.nav>>)

\* await this.navigateToPath(this.currentPath, false) and the message of success
\* behind it (lines 1044-1045, 1066-1067, 1084-1086, 1104-1106): navigateToPath up
\* to its first suspension (lines 266-284)
Relist(op) ==
    IF Falsy(currentPath) \/ ~isOnline
    THEN /\ ev' = Event(op, "rejected", FALSE)
         /\ status' = "success"
         /\ NoNavigation
    ELSE LET p == NormalizePath(currentPath)
         IN  /\ navTarget' = p
             /\ IF IsCached(cache, p)
                THEN /\ NavApply(p, FALSE, MapGet(cache, p), cache, historyIndex)
                     /\ ev' = Event(op, "hit", FALSE)
                     /\ UNCHANGED pending
                ELSE /\ Len(pending) < MaxPending
                     /\ pending' = Append(pending, Request("list", p, FALSE, <<>>, AWAITED))
                     /\ status' = "loading"
                     /\ ev' = Event(op, "miss", FALSE)
                     /\ UNCHANGED <<cache, historyIndex, currentPath, history, currentItems,
                                    prefetchQueue>>

\* the request in flight of operation i was answered: the call threw, or the loop
\* goes on to the next item, or it is over and `done` runs
Settles(i, outcome, op, done) ==
    LET failed == ops[i].failed \/ outcome # "ok"
        ended == [kind |-> ops[i].kind, failed |-> failed, before |-> ops[i].before]
    IN  IF outcome = "thrown"
        THEN /\ ops' = RemoveAt(ops, i)
             /\ finished' = ended
             /\ status' = "error"
             /\ ev' = Event(op, "thrown", FALSE)
             /\ UNCHANGED <<selectedItems, clipboard>>
             /\ NoNavigation
        ELSE IF ops[i].at < Len(ops[i].items)
        THEN /\ ops' = [ops EXCEPT ![i].at = @ + 1, ![i].failed = failed]
             /\ ev' = Event(op, "next", FALSE)
             /\ UNCHANGED <<selectedItems, clipboard, finished, status>>
             /\ NoNavigation
        ELSE /\ ops' = RemoveAt(ops, i)
             /\ finished' = ended
             /\ done
             /\ Relist(op)

\* no call of deleteSelectedItems iterates the selection
SelectionAtRest == \A i \in 1..Len(ops) : ops[i].kind # "delete"

\* the rows a click may hit: the first two that fileList shows
Clickable == SubSeq(rendered.items, 1, IF Len(rendered.items) < 2 THEN Len(rendered.items) ELSE 2)

\* selectSingle(item), lines 682-689
SelectSingle ==
    \E r \in 1..Len(Clickable) :
        /\ SelectionAtRest
        /\ selectedItems' = <<Clickable[r].path>>
        /\ ev' = Event("selectSingle", "none", FALSE)
        /\ arg' = Clickable[r].path
        /\ UNCHANGED <<clipboard, ops, finished, status>>
        /\ NoNavigation
        /\ FileCommand

\* toggleSelection(item), lines 691-700
ToggleSelection ==
    \E r \in 1..Len(Clickable) :
        LET path == Clickable[r].path
        IN  /\ SelectionAtRest
            /\ selectedItems' = IF \E k \in 1..Len(selectedItems) : selectedItems[k] = path
                                THEN SelectSeq(selectedItems, LAMBDA q : q # path)
                                ELSE Append(selectedItems, path)
            /\ ev' = Event("toggleSelection", "none", FALSE)
            /\ arg' = path
            /\ UNCHANGED <<clipboard, ops, finished, status>>
            /\ NoNavigation
            /\ FileCommand

\* copySelectedItems(), lines 1005-1009
CopySelectedItems ==
    /\ clipboard' = [items |-> selectedItems, operation |-> "copy"]
    /\ status' = "success"
    /\ ev' = Event("copySelectedItems", "none", FALSE)
    /\ arg' = NULL
    /\ UNCHANGED <<selectedItems, ops, finished>>
    /\ NoNavigation
    /\ FileCommand

\* cutSelectedItems(), lines 1011-1015
CutSelectedItems ==
    /\ clipboard' = [items |-> selectedItems, operation |-> "cut"]
    /\ status' = "success"
    /\ ev' = Event("cutSelectedItems", "none", FALSE)
    /\ arg' = NULL
    /\ UNCHANGED <<selectedItems, ops, finished>>
    /\ NoNavigation
    /\ FileCommand

\* pasteItems() up to its first suspension (lines 1017-1031): the copy or move
\* call for the first item of the clipboard is issued
PasteItems ==
    /\ IF clipboard.items = <<>> \/ Falsy(currentPath)
       THEN /\ ev' = Event("pasteItems", "none", FALSE)
            /\ UNCHANGED <<ops, status>>
       ELSE /\ Len(ops) < MaxOps
            /\ ops' = Append(ops, Operation("paste", clipboard.items, clipboard))
            /\ status' = "loading"
            /\ ev' = Event("pasteItems", "issued", FALSE)
    /\ arg' = NULL
    /\ UNCHANGED <<selectedItems, clipboard, finished>>
    /\ NoNavigation
    /\ FileCommand

\* a copy or move call of pasteItems returns (lines 1023-1049): apiCall throws,
\* or returns an envelope whose `success` nobody reads
PasteReturns ==
    \E i \in 1..Len(ops) : \E outcome \in {"thrown", "unsuccessful", "ok"} :
        /\ ops[i].kind = "paste"
        /\ Settles(i, outcome, "pasteReturns",
                   /\ clipboard' = IF clipboard.operation = "cut"
                                   THEN [clipboard EXCEPT !.items = <<>>] ELSE clipboard
                   /\ UNCHANGED selectedItems)
        /\ arg' = NULL
        /\ FileResumed

\* deleteSelectedItems() up to its first suspension (lines 1052-1062); confirm()
\* is answered by the user
DeleteSelectedItems ==
    \E confirmed \in BOOLEAN :
        /\ IF selectedItems = <<>> \/ ~confirmed
           THEN /\ ev' = Event("deleteSelectedItems", "none", FALSE)
                /\ UNCHANGED <<ops, status>>
           ELSE /\ Len(ops) < MaxOps
                /\ SelectionAtRest
                /\ ops' = Append(ops, Operation("delete", selectedItems, clipboard))
                /\ status' = "loading"
                /\ ev' = Event("deleteSelectedItems", "issued", FALSE)
        /\ arg' = NULL
        /\ UNCHANGED <<selectedItems, clipboard, finished>>
        /\ NoNavigation
        /\ FileCommand

\* a delete call of deleteSelectedItems returns (lines 1061-1071)
DeleteReturns ==
    \E i \in 1..Len(ops) : \E outcome \in {"thrown", "unsuccessful", "ok"} :
        /\ ops[i].kind = "delete"
        /\ Settles(i, outcome, "deleteReturns",
                   /\ selectedItems' = <<>>
                   /\ UNCHANGED clipboard)
        /\ arg' = NULL
        /\ FileResumed

\* createNewFolder() and createNewFile() up to their first suspension (lines
\* 1074-1081 and 1094-1101); prompt() returns the name or nothing
CreateNewFolder ==
    \E name \in {<<>>, <<"n">>} :
        /\ IF Falsy(name) \/ Falsy(currentPath)
           THEN /\ ev' = Event("createNewFolder", "none", FALSE)
                /\ UNCHANGED ops
           ELSE /\ Len(ops) < MaxOps
                /\ ops' = Append(ops, Operation("create", <<(currentPath \o <<BS>>) \o name>>, clipboard))
                /\ ev' = Event("createNewFolder", "issued", FALSE)
        /\ arg' = name
        /\ UNCHANGED <<selectedItems, clipboard, finished, status>>
        /\ NoNavigation
        /\ FileCommand

\* the create call returns (lines 1081-1091 and 1101-1111)
CreateReturns ==
    \E i \in 1..Len(ops) : \E outcome \in {"thrown", "unsuccessful", "ok"} :
        /\ ops[i].kind = "create"
        /\ Settles(i, outcome, "createReturns", UNCHANGED <<selectedItems, clipboard>>)
        /\ arg' = NULL
        /\ FileResumed

NextFiles ==
    \/ SelectSingle
    \/ ToggleSelection
    \/ CopySelectedItems
    \/ CutSelectedItems
    \/ PasteItems
    \/ PasteReturns
    \/ DeleteSelectedItems
    \/ DeleteReturns
    \/ CreateNewFolder
    \/ CreateReturns
    \/ RefreshTree
    \/ ListReturns
    \/ CheckConnection

\* the file operations, observed after a visit of C:\
SpecFiles == InitFiles /\ [][NextFiles]_vars

\* ------------------------------------------------------------ the file list
\* a listing of n files n0001, n0002, ...
Numbered(n) ==
    [i \in 1..n |-> Entry(<<"n">> \o Digits4(i), (ROOT \o <<"n">>) \o Digits4(i), TRUE)]

\* a listing of three files and a folder, in the order the backend sent them
Mixed ==
    <<Entry(<<"b">>, ROOT \o <<"b">>, TRUE), Entry(<<"a">>, ROOT \o <<"a">>, TRUE),
      Entry(<<"c">>, ROOT \o <<"c">>, FALSE), Entry(<<"d">>, ROOT \o <<"d">>, TRUE)>>

\* the collections a navigation or a search may hand to renderFileList
Collections ==
    {<<>>, Mixed, Numbered(virtualScrollThreshold), Numbered(5000)}

\* the heights the element fileList may take, and the offsets it may be scrolled to
ViewportHeights == {72, 720}
ScrollOffsets == {0, 50, 3600, 179280}

\* this.currentItems is set: renderFileList, which alone assigns it (line 480),
\* has run
HasItems == rendered.kind # "none"

\* renderFileList(items) replaces the content of fileList, whose scroll offset the
\* browser keeps within the new content
Paint(items, view) ==
    /\ currentItems' = items
    /\ rendered' = RenderFileList(items, view, visibleItems)
    /\ scrollTop' = IF scrollTop > ScrollExtent(rendered', clientHeight)
                    THEN ScrollExtent(rendered', clientHeight) ELSE scrollTop

\* renderFileList(items), lines 479-502, called with a collection (lines 306, 745, 802)
ShowItems ==
    \E items \in Collections :
        /\ Paint(items, currentView)
        /\ ev' = Event("renderFileList", rendered'.kind, FALSE)
        /\ arg' = NULL
        /\ UNCHANGED <<currentView, visibleItems, clientHeight, inThrottle>>
        /\ UNCHANGED <<engineVars, status, playerVars, fnVars>>

\* setView(view), lines 702-713
SetView ==
    \E view \in {"list", "grid"} :
        /\ currentView' = view
        /\ IF HasItems
           THEN Paint(currentItems, view) /\ ev' = Event("setView", rendered'.kind, FALSE)
           ELSE UNCHANGED <<currentItems, rendered, scrollTop>>
                /\ ev' = Event("setView", "none", FALSE)
        /\ arg' = NULL
        /\ UNCHANGED <<visibleItems, clientHeight, inThrottle>>
        /\ UNCHANGED <<engineVars, status, playerVars, fnVars>>

\* a scroll event on fileList (lines 160-162): the offset has changed; throttle
\* (lines 1686-1695) drops the event or lets handleVirtualScroll (lines 443-457) run
ScrollList ==
    \E offset \in ScrollOffsets :
        /\ offset # scrollTop
        /\ currentView = "list" => offset <= ScrollExtent(rendered, clientHeight)
        /\ scrollTop' = offset
        /\ inThrottle' = TRUE
        /\ IF inThrottle
           THEN UNCHANGED rendered /\ ev' = Event("scroll", "throttled", FALSE)
           ELSE IF currentView # "list" \/ ~HasItems
           THEN UNCHANGED rendered /\ ev' = Event("scroll", "ignored", FALSE)
           ELSE LET w == WindowOf(currentItems, offset, visibleItems)
                IN  /\ rendered' = RenderVirtualItems(currentItems, w.startIndex, w.endIndex)
                    /\ ev' = Event("scroll", "window", FALSE)
        /\ arg' = NULL
        /\ UNCHANGED <<currentItems, currentView, visibleItems, clientHeight>>
        /\ UNCHANGED <<engineVars, status, playerVars, fnVars>>

\* the timeout of throttle runs (line 1692)
ThrottleExpires ==
    /\ inThrottle
    /\ inThrottle' = FALSE
    /\ ev' = Event("throttleExpires", "none", FALSE)
    /\ arg' = NULL
    /\ UNCHANGED <<currentItems, currentView, visibleItems, clientHeight, scrollTop,
                   rendered>>
    /\ UNCHANGED <<engineVars, status, playerVars, fnVars>>

\* a resize of the window to another height, and handleResize(), lines 1138-1144,
\* which debounce (lines 165, 1674-1684) runs 250 ms after the last resize event
HandleResize ==
    \E height \in ViewportHeights :
        /\ height # clientHeight
        /\ clientHeight' = height
        /\ scrollTop' = IF scrollTop > ScrollExtent(rendered, height)
                        THEN ScrollExtent(rendered, height) ELSE scrollTop
        /\ IF currentView = "list" /\ HasItems /\ Len(currentItems) > virtualScrollThreshold
           THEN visibleItems' = VisibleRows(height) /\ ev' = Event("handleResize", "set", FALSE)
           ELSE UNCHANGED visibleItems /\ ev' = Event("handleResize", "none", FALSE)
        /\ arg' = NULL
        /\ UNCHANGED <<currentItems, currentView, inThrottle, rendered>>
        /\ UNCHANGED <<engineVars, status, playerVars, fnVars>>

NextList ==
    \/ ShowItems
    \/ SetView
    \/ ScrollList
    \/ ThrottleExpires
    \/ HandleResize

\* the file list alone: collections are handed to it, it is scrolled and resized
SpecList == Init /\ [][NextList]_vars

\* --------------------------------------------------------- the audio player
\* the audio files of the listing
AudioFiles == {ROOT \o <<"a", ".", "m", "p", "3">>, ROOT \o <<"b", ".", "w", "a", "v">>}

\* new Audio(url) for the file (line 1235): paused, its URL not revoked, no
\* metadata yet, not yet the source of an analyser
NewAudio(path) ==
    [file |-> path, paused |-> TRUE, released |-> FALSE, metadata |-> FALSE, source |-> FALSE]

\* audio.pause(); URL.revokeObjectURL(audio.src) for element a, 0 standing for
\* null (lines 1229-1232 and 1478-1481)
PauseAndRelease(as, a) ==
    IF a = 0 THEN as ELSE [as EXCEPT ![a].paused = TRUE, ![a].released = TRUE]

\* audio.pause() for element a (lines 1519, 1534)
Pause(as, a) == [as EXCEPT ![a].paused = TRUE]

\* the frames still requested after stopPeakMeterAnimation(), lines 1603-1607
FramesAfterStop == IF audioPlayer.animationId # 0 THEN frames \ {audioPlayer.animationId} ELSE frames

\* a callback that runs whatever isPlaying says
FrameRunsAlways(player) == TRUE

\* the guard of animatePeakMeter, line 1582
FrameRuns(player) == player.isPlaying

\* the place in `loads` of the call of loadAudioFile that this step resumes
Resumed ==
    CHOOSE i \in 1..Len(loads) :
        IF Len(loads') < Len(loads) THEN loads' = RemoveAt(loads, i) ELSE loads'[i] # loads[i]

\* the fields the user's files and the engine's status aside, a player action
\* leaves the engine, the list and the function alone.  What `session` records:
\* loadAudioFile(path) makes `path` the file requested last and numbers the call;
\* a step that resumes a call records its number, and the greatest number of a
\* call that has assigned a playback object; a step that draws on the canvas
\* draws the waveform of the file it was called for
PlayerOnly ==
    /\ UNCHANGED <<engineVars, currentItems, listVars, fnVars>>
    /\ session' =
         [requested |-> IF ev'.op = "loadAudioFile" THEN arg' ELSE session.requested,
          issued |-> IF ev'.op = "loadAudioFile" THEN session.issued + 1 ELSE session.issued,
          returned |-> IF ev'.op \in {"readReturns", "decodeReturns"} THEN loads[Resumed].id
                       ELSE 0,
          newest |-> IF ev'.op = "readReturns" /\ ev'.nav \in {"ok", "noContext"}
                        /\ loads[Resumed].id > session.newest
                     THEN loads[Resumed].id ELSE session.newest,
          drawn |-> CASE ev'.op = "readReturns" /\ ev'.nav = "ok" -> NULL
                      [] ev'.op = "readReturns" /\ ev'.nav = "noContext" -> arg'
                      [] ev'.op = "decodeReturns" /\ waveform' \in {"real", "placeholder"}
                             /\ (ev'.nav = "decoded" \/ audioPlayer.audio # 0) -> arg'
                      [] ev'.op = "resizeWaveformCanvas" ->
                             (IF waveform' = "placeholder" THEN audioPlayer.currentFile ELSE NULL)
                      [] OTHER -> session.drawn]

\* loadAudioFile(path) up to its first suspension (lines 1203-1208)
LoadAudioFile ==
    \E path \in AudioFiles :
        /\ Len(loads) < MaxLoads
        /\ session.issued < MaxIssued
        /\ loads' = Append(loads, [path |-> path, stage |-> "read", id |-> session.issued + 1])
        /\ status' = "loading"
        /\ ev' = Event("loadAudioFile", "issued", FALSE)
        /\ arg' = path
        /\ UNCHANGED <<audioPlayer, audios, frames, frameCount, waveform, playerHidden, control>>
        /\ PlayerOnly

\* the read_binary call of loadAudioFile returns (lines 1208-1247) and, when it
\* succeeded, generateRealWaveform runs up to decodeAudioData (lines 1373-1389);
\* when no AudioContext can be made, the placeholder is drawn at once (line 1469)
ReadReturns ==
    \E i \in 1..Len(loads) : \E outcome \in {"thrown", "unsuccessful", "ok", "noContext"} :
        LET path == loads[i].path
            made == Len(audios) + 1
        IN  /\ loads[i].stage = "read"
            /\ IF outcome \in {"thrown", "unsuccessful"}
               THEN /\ loads' = RemoveAt(loads, i)
                    /\ status' = "error"
                    /\ UNCHANGED <<audioPlayer, audios, waveform, playerHidden, control>>
               ELSE /\ Len(audios) < MaxAudios
                    /\ audios' = Append(PauseAndRelease(audios, audioPlayer.audio), NewAudio(path))
                    /\ audioPlayer' = [audioPlayer EXCEPT !.audio = made, !.currentFile = path,
                                                          !.isPlaying = FALSE]
                    /\ playerHidden' = FALSE
                    /\ control' = "load"
                    /\ IF outcome = "ok"
                       THEN /\ loads' = [loads EXCEPT ![i].stage = "decode"]
                            /\ waveform' = "cleared"
                            /\ UNCHANGED status
                       ELSE /\ loads' = RemoveAt(loads, i)
                            /\ waveform' = "placeholder"
                            /\ status' = "success"
            /\ ev' = Event("readReturns", outcome, FALSE)
            /\ arg' = path
            /\ UNCHANGED <<frames, frameCount>>
            /\ PlayerOnly

\* decodeAudioData settles (lines 1389-1465) and loadAudioFile ends (line 1249); on
\* a rejection generateWaveform (lines 1321-1371) draws the placeholder, unless
\* there is no playback object
DecodeReturns ==
    \E i \in 1..Len(loads) : \E outcome \in {"decoded", "rejected"} :
        /\ loads[i].stage = "decode"
        /\ loads' = RemoveAt(loads, i)
        /\ waveform' = IF outcome = "decoded" THEN "real"
                       ELSE IF audioPlayer.audio = 0 THEN waveform ELSE "placeholder"
        /\ status' = "success"
        /\ ev' = Event("decodeReturns", outcome, FALSE)
        /\ arg' = loads[i].path
        /\ UNCHANGED <<audioPlayer, audios, frames, frameCount, playerHidden, control>>
        /\ PlayerOnly

\* the event loadedmetadata of element a, whose listener calls setupAudioAnalyser
\* (lines 1276-1279, 1298-1319) for the playback object of the moment: the analyser
\* is replaced unless making the context or the source throws (an element can be
\* the source of one node only)
LoadedMetadata ==
    \E a \in 1..Len(audios) : \E context \in BOOLEAN :
        LET current == audioPlayer.audio
            marked == [audios EXCEPT ![a].metadata = TRUE]
        IN  /\ ~audios[a].metadata
            /\ IF current # 0 /\ context /\ ~audios[current].source
               THEN /\ audios' = [marked EXCEPT ![current].source = TRUE]
                    /\ audioPlayer' = [audioPlayer EXCEPT !.analyser = current]
                    /\ ev' = Event("loadedmetadata", "analyser", FALSE)
               ELSE /\ audios' = marked
                    /\ UNCHANGED audioPlayer
                    /\ ev' = Event("loadedmetadata", "none", FALSE)
            /\ arg' = NULL
            /\ UNCHANGED <<frames, frameCount, loads, waveform, playerHidden, control, status>>
            /\ PlayerOnly

\* togglePlayPause(), lines 1515-1529, with startPeakMeterAnimation (lines
\* 1578-1601, whose first call of animatePeakMeter is synchronous) and
\* stopPeakMeterAnimation (lines 1603-1614)
TogglePlayPause ==
    /\ IF audioPlayer.audio = 0
       THEN /\ ev' = Event("togglePlayPause", "none", FALSE)
            /\ UNCHANGED <<audioPlayer, audios, frames, frameCount, control>>
       ELSE IF audioPlayer.isPlaying
       THEN /\ audios' = Pause(audios, audioPlayer.audio)
            /\ audioPlayer' = [audioPlayer EXCEPT !.isPlaying = FALSE, !.animationId = 0]
            /\ frames' = FramesAfterStop
            /\ control' = "pause"
            /\ ev' = Event("togglePlayPause", "paused", FALSE)
            /\ UNCHANGED frameCount
       ELSE /\ audios' = [audios EXCEPT ![audioPlayer.audio].paused = FALSE]
            /\ control' = "play"
            /\ IF audioPlayer.analyser = 0
               THEN /\ audioPlayer' = [audioPlayer EXCEPT !.isPlaying = TRUE]
                    /\ ev' = Event("togglePlayPause", "playing", FALSE)
                    /\ UNCHANGED <<frames, frameCount>>
               ELSE /\ frameCount < MaxFrames
                    /\ frameCount' = frameCount + 1
                    /\ frames' = frames \cup {frameCount + 1}
                    /\ audioPlayer' = [audioPlayer EXCEPT !.isPlaying = TRUE,
                                                          !.animationId = frameCount + 1]
                    /\ ev' = Event("togglePlayPause", "metered", FALSE)
    /\ arg' = NULL
    /\ UNCHANGED <<loads, waveform, playerHidden, status>>
    /\ PlayerOnly

\* stopAudio(), lines 1531-1540
StopAudio ==
    /\ IF audioPlayer.audio = 0
       THEN /\ ev' = Event("stopAudio", "none", FALSE)
            /\ UNCHANGED <<audioPlayer, audios, frames, control>>
       ELSE /\ audios' = Pause(audios, audioPlayer.audio)
            /\ audioPlayer' = [audioPlayer EXCEPT !.isPlaying = FALSE, !.animationId = 0]
            /\ frames' = FramesAfterStop
            /\ control' = "stop"
            /\ ev' = Event("stopAudio", "stopped", FALSE)
    /\ arg' = NULL
    /\ UNCHANGED <<frameCount, loads, waveform, playerHidden, status>>
    /\ PlayerOnly

\* closeAudioPlayer(), lines 1477-1488
CloseAudioPlayer ==
    /\ audios' = PauseAndRelease(audios, audioPlayer.audio)
    /\ audioPlayer' = [audioPlayer EXCEPT !.audio = 0, !.currentFile = NULL,
                                          !.isPlaying = FALSE, !.animationId = 0]
    /\ frames' = FramesAfterStop
    /\ playerHidden' = TRUE
    /\ control' = "close"
    /\ ev' = Event("closeAudioPlayer", "closed", FALSE)
    /\ arg' = NULL
    /\ UNCHANGED <<frameCount, loads, waveform, status>>
    /\ PlayerOnly

\* the event ended of element a, which was playing (lines 1286-1290)
Ended ==
    \E a \in 1..Len(audios) :
        /\ ~audios[a].paused
        /\ audios' = Pause(audios, a)
        /\ audioPlayer' = [audioPlayer EXCEPT !.isPlaying = FALSE, !.animationId = 0]
        /\ frames' = FramesAfterStop
        /\ control' = "ended"
        /\ ev' = Event("ended", "stopped", FALSE)
        /\ arg' = NULL
        /\ UNCHANGED <<frameCount, loads, waveform, playerHidden, status>>
        /\ PlayerOnly

\* the browser runs a requested animation frame: animatePeakMeter, lines 1581-1598
AnimationFrame ==
    \E f \in frames :
        /\ IF FrameRuns(audioPlayer)
           THEN /\ frameCount < MaxFrames
                /\ frameCount' = frameCount + 1
                /\ frames' = (frames \ {f}) \cup {frameCount + 1}
                /\ audioPlayer' = [audioPlayer EXCEPT !.animationId = frameCount + 1]
                /\ ev' = Event("animationFrame", "metered", FALSE)
           ELSE /\ frames' = frames \ {f}
                /\ ev' = Event("animationFrame", "returned", FALSE)
                /\ UNCHANGED <<audioPlayer, frameCount>>
        /\ arg' = NULL
        /\ UNCHANGED <<audios, loads, waveform, playerHidden, control, status>>
        /\ PlayerOnly

\* a resize of the window: resizeWaveformCanvas(), lines 1616-1627, redraws the
\* canvas with generateWaveform when a file is loaded
ResizeWaveformCanvas ==
    /\ waveform' = IF audioPlayer.currentFile # NULL /\ audioPlayer.audio # 0
                   THEN "placeholder" ELSE "cleared"
    /\ ev' = Event("resizeWaveformCanvas", waveform', FALSE)
    /\ arg' = NULL
    /\ UNCHANGED <<audioPlayer, audios, frames, frameCount, loads, playerHidden, control, status>>
    /\ PlayerOnly

NextPlayer ==
    \/ LoadAudioFile
    \/ ReadReturns
    \/ DecodeReturns
    \/ LoadedMetadata
    \/ TogglePlayPause
    \/ StopAudio
    \/ CloseAudioPlayer
    \/ Ended
    \/ AnimationFrame
    \/ ResizeWaveformCanvas

\* the audio player alone: files are loaded into it and it is played
SpecPlayer == Init /\ [][NextPlayer]_vars

\* ------------------------------------------- the ranking, applied to inputs
\* every string of at most n characters of the alphabet
Words(alphabet, n) == UNION {[1..k -> alphabet] : k \in 0..n}

NameAlphabet == {"a", "b", "A", "_", "-", " "}
QueryAlphabet == {"a", "b", "B"}

\* calculateRelevance is about to be applied to a name and a query
InitRelevance ==
    /\ Constructed
    /\ fnIn \in [name : Words(NameAlphabet, MaxNameLen), query : Words(QueryAlphabet, MaxQueryLen)]
    /\ fnOut = <<>>

\* calculateRelevance(name, query) returns
ApplyCalculateRelevance ==
    /\ fnOut = <<>>
    /\ fnOut' = <<CalculateRelevance(fnIn.name, fnIn.query)>>
    /\ UNCHANGED <<fnIn, engineVars, currentItems, status, ev, arg, listVars, playerVars>>

SpecRelevance == InitRelevance /\ [][ApplyCalculateRelevance]_vars

\* a file of the directory C:\ by its name
FileNamed(name) == Entry(name, ROOT \o name, TRUE)

LogTxt == FileNamed(<<"l", "o", "g", ".", "t", "x", "t">>)
CatalogTxt == FileNamed(<<"c", "a", "t", "a", "l", "o", "g", ".", "t", "x", "t">>)
MyLogFileTxt ==
    FileNamed(<<"m", "y", "-", "l", "o", "g", "-", "f", "i", "l", "e", ".", "t", "x", "t">>)
BacklogTxt == FileNamed(<<"b", "a", "c", "k", "l", "o", "g", ".", "t", "x", "t">>)
LogFile == FileNamed(<<"l", "o", "g">>)

RankPool == {LogTxt, CatalogTxt, MyLogFileTxt, BacklogTxt, LogFile}

\* the merged collections: Array.from(allItems.values()) holds an item once
RankLists ==
    {items \in UNION {[1..k -> RankPool] : k \in 0..MaxRankLen} :
        \A i, j \in 1..Len(items) : i # j => items[i] # items[j]}

RankQueries == {<<"l", "o", "g">>, <<"o", "g">>}

\* the relevance sort is about to be applied to a merged collection
InitRank ==
    /\ Constructed
    /\ fnIn \in [items : RankLists, query : RankQueries]
    /\ fnOut = <<>>

\* finalResults.sort(...) of lines 787-791 returns
ApplySortByRelevance ==
    /\ fnOut = <<>>
    /\ fnOut' = <<SortByRelevance(<<>>, fnIn.items, fnIn.query)>>
    /\ UNCHANGED <<fnIn, engineVars, currentItems, status, ev, arg, listVars, playerVars>>

SpecRank == InitRank /\ [][ApplySortByRelevance]_vars

\* ------------------------------------------ the waveform, applied to inputs
\* JS numbers: a fraction n/d in lowest terms, Infinity, or NaN
RECURSIVE GCD(_, _)
GCD(a, b) == IF b = 0 THEN a ELSE GCD(b, a % b)

Fraction(n, d) ==
    [kind |-> "finite", n |-> n \div GCD(n, d), d |-> d \div GCD(n, d)]

Number(n) == [kind |-> "finite", n |-> n, d |-> 1]
NaN == [kind |-> "NaN", n |-> 0, d |-> 1]
Infinity == [kind |-> "Infinity", n |-> 1, d |-> 1]

\* x >= y for two numbers that are not NaN and not negative
AtLeast(x, y) ==
    IF x.kind = "Infinity" THEN TRUE
    ELSE IF y.kind = "Infinity" THEN FALSE
    ELSE x.n * y.d >= y.n * x.d

\* x / y for numbers that are not negative: 0/0 is NaN and x/0 is Infinity
Divide(x, y) ==
    IF x.kind = "NaN" \/ y.kind = "NaN" THEN NaN
    ELSE IF y.kind = "Infinity" THEN (IF x.kind = "Infinity" THEN NaN ELSE Number(0))
    ELSE IF x.kind = "Infinity" THEN Infinity
    ELSE IF y.n = 0 THEN (IF x.n = 0 THEN NaN ELSE Infinity)
    ELSE Fraction(x.n * y.d, x.d * y.n)

\* Math.max(...values) of a non-empty array of numbers that are not negative:
\* NaN when one of them is NaN
MathMax(values) ==
    IF \E i \in 1..Len(values) : values[i].kind = "NaN" THEN NaN
    ELSE values[CHOOSE i \in 1..Len(values) :
                    \A j \in 1..Len(values) : AtLeast(values[i], values[j])]

Abs(x) == IF x < 0 THEN -x ELSE x

RECURSIVE BlockSum(_, _, _)
\* the loop of lines 1398-1401: the sum of |rawData[blockStart + j]| for j < count
BlockSum(rawData, blockStart, count) ==
    IF count = 0 THEN 0
    ELSE Abs(rawData[blockStart + count]) + BlockSum(rawData, blockStart, count - 1)

\* filteredData of lines 1391-1403 (and rightFiltered of lines 1431-1440) for a
\* canvas `samples` points wide; blockStart counts from 0
Downsample(rawData, samples) ==
    LET blockSize == Len(rawData) \div samples
    IN  [i \in 1..samples |->
            Divide(Number(BlockSum(rawData, blockSize * (i - 1), blockSize)), Number(blockSize))]

\* normalizedData of lines 1406-1407 (and normalizedRightData of lines 1442-1443)
Normalize(filteredData) ==
    LET maxValue == MathMax(filteredData)
    IN  [i \in 1..Len(filteredData) |-> Divide(filteredData[i], maxValue)]

SampleValues == {-1, 0, 2}

\* the waveform of a decoded channel is about to be computed for a canvas
InitWaveform ==
    /\ Constructed
    /\ fnIn \in [rawData : UNION {[1..k -> SampleValues] : k \in 0..MaxSamples},
                  width : 1..MaxWidth]
    /\ fnOut = <<>>

\* lines 1390-1407 of generateRealWaveform have run
ApplyNormalize ==
    /\ fnOut = <<>>
    /\ fnOut' = <<Normalize(Downsample(fnIn.rawData, fnIn.width))>>
    /\ UNCHANGED <<fnIn, engineVars, currentItems, status, ev, arg, listVars, playerVars>>

SpecWaveform == InitWaveform /\ [][ApplyNormalize]_vars

\* ------------------------------------------- queuePrefetch, applied to inputs
\* item i of a listing: a file or a folder of C:\
ListedItem(i, isFile) == Entry(<<"e", Digit(i)>>, ROOT \o <<"e", Digit(i)>>, isFile)

\* the listings of at most MaxListing items, each a file or a folder
Listings ==
    {[i \in 1..k |-> ListedItem(i, isFile[i])] :
        k \in 0..MaxListing, isFile \in [1..MaxListing -> BOOLEAN]}

\* the directory caches that hold the listings of the items of `cached`
CachesOf(cached) ==
    SelectSeq([i \in 1..MaxListing |->
                  [k |-> ListedItem(i, FALSE).path, v |-> [success |-> TRUE, data |-> <<>>]]],
              LAMBDA e : \E i \in cached : e.k = ListedItem(i, FALSE).path)

\* queuePrefetch is about to be applied to the listing a navigation received,
\* with some of its folders cached and the queue empty or not
InitQueue ==
    /\ Constructed
    /\ \E items \in Listings : \E cached \in SUBSET {1, 2, 6} : \E q \in {<<>>, <<DirA>>} :
           fnIn = [items |-> items, cache |-> CachesOf(cached), queue |-> q]
    /\ fnOut = <<>>

\* queuePrefetch(items), line 313, returns
ApplyQueuePrefetch ==
    /\ fnOut = <<>>
    /\ fnOut' = <<QueuePrefetch(fnIn.queue, fnIn.items, fnIn.cache)>>
    /\ UNCHANGED <<fnIn, engineVars, currentItems, status, ev, arg, listVars, playerVars>>

SpecQueue == InitQueue /\ [][ApplyQueuePrefetch]_vars

\* --------------------------------------- the merge of lines 774-784, applied
\* what one search call may return: at most MaxFound items of the pool
FoundLists ==
    UNION {[1..k -> {SearchPool[i] : i \in 1..Len(SearchPool)}] : k \in 0..MaxFound}

\* the results of at most MaxQueries search calls are about to be merged
InitMerge ==
    /\ Constructed
    /\ \E n \in 1..MaxQueries :
           \E outs \in [1..n -> ApiOutcomes({[success |-> FALSE, data |-> <<>>]}
                                    \cup {[success |-> TRUE, data |-> d] : d \in FoundLists})] :
               fnIn = [outs |-> outs]
    /\ fnOut = <<>>

\* lines 774-784 have run
ApplyMergeResults ==
    /\ fnOut = <<>>
    /\ fnOut' = <<MergeResults(<<>>, fnIn.outs)>>
    /\ UNCHANGED <<fnIn, engineVars, currentItems, status, ev, arg, listVars, playerVars>>

SpecMerge == InitMerge /\ [][ApplyMergeResults]_vars

\* ================================================================ claims
\* a navigation applied its listing in the last step: a cache hit, or a list call
\* that returned successfully
NavApplied(e) == e.nav = "hit" \/ (e.op = "listReturns" /\ e.nav = "ok")

\* the list call of a navigation failed in the last step
NavFailed(e) == e.op = "listReturns" /\ e.nav \in {"thrown", "unsuccessful"}

\* C1: in every reachable state the Directory Cache holds at most 100 entries.
DirCacheWithinLimit == Len(cache) <= CACHE_LIMIT

\* C2: in every reachable state the Search Cache holds at most 50 entries.
SearchCacheWithinLimit == Len(searchCache) <= SEARCH_CACHE_LIMIT

\* a search returned and its key displaced the oldest key of a full Search Cache
SearchEvictionWitness ==
    /\ ev.op = "searchReturns"
    /\ Len(searchInserted) > SEARCH_CACHE_LIMIT
    /\ Len(searchCache) = SEARCH_CACHE_LIMIT
    /\ pending # <<>>

\* C3: after more insertions than the capacity, a cache filled by navigation
\* misses (or search misses) holds exactly the keys inserted most recently, as many
\* as the capacity, in the order of their insertion; a cache hit changes nothing.
FifoRetention ==
    /\ ~dirPrefetched => MapKeys(cache) = LastN(dirInserted, CACHE_LIMIT)
    /\ MapKeys(searchCache) = LastN(searchInserted, SEARCH_CACHE_LIMIT)

\* a navigation was served from the Directory Cache after a miss had displaced
\* the oldest key of the full cache
FifoHitAfterEvictionWitness ==
    /\ ev.nav = "hit"
    /\ ~dirPrefetched
    /\ Len(dirInserted) > CACHE_LIMIT
    /\ Len(cache) = CACHE_LIMIT

\* C4: a navigation whose path is cached issues no list call and renders the
\* cached listing; one whose path is not cached issues exactly one list call, no
\* further call is issued when that call returns, and a successful return leaves
\* the listing in the cache under the path.
NavCacheContract ==
    [][/\ ev'.nav = "hit" =>
            /\ pending' = pending
            /\ MapHas(cache, navTarget')
            /\ currentItems' = MapGet(cache, navTarget').data
       /\ ev'.nav = "miss" =>
            /\ ~MapHas(cache', navTarget')
            /\ pending' = Append(pending, Request("list", navTarget', ev'.add, <<>>, <<>>))
       /\ ev'.op = "listReturns" => Len(pending') = Len(pending) - 1
       /\ (ev'.op = "listReturns" /\ ev'.nav = "ok") =>
            /\ MapHas(cache', currentPath')
            /\ MapGet(cache', currentPath').data = currentItems']_vars

\* the address bar navigated to a path whose listing an earlier list call cached
NavHitWitness ==
    /\ ev.op = "navigate"
    /\ ev.nav = "hit"
    /\ pending = <<>>
    /\ currentItems = MapGet(cache, currentPath).data

\* C5: neither the call of navigate(p) nor the failure of its list call changes
\* the current path, the history, the history index or the Directory Cache, and
\* the failure surfaces an error status.
NavFailureFrame ==
    [][/\ (ev'.op \in {"navigate", "goUp"} /\ ev'.nav = "miss") =>
            UNCHANGED <<currentPath, history, historyIndex, cache>>
       /\ NavFailed(ev') =>
            /\ UNCHANGED <<currentPath, history, historyIndex, cache>>
            /\ status' = "error"]_vars

\* the list call of a navigation was answered with success = false
NavFailedWitness ==
    /\ ev.op = "listReturns"
    /\ ev.nav = "unsuccessful"
    /\ ev.add
    /\ status = "error"
    /\ currentPath # navTarget

\* C6: the result of a list call is applied only if its path is still the most
\* recently requested navigation target.
StaleNavDiscarded == NavApplied(ev) => currentPath = navTarget

\* C7: a search result is rendered only if search mode is still on and its
\* query and path are still the current query and the current path.
StaleSearchDiscarded ==
    [][ev'.op = "searchReturns" =>
            \E i \in 1..Len(pending) :
                /\ pending[i].kind = "search"
                /\ pending' = RemoveAt(pending, i)
                /\ isSearchMode
                /\ pending[i].query = searchQuery
                /\ pending[i].path = currentPath]_vars

\* C8: -1 <= historyIndex < length of the history, and historyIndex = -1 exactly
\* when the history is empty.
HistoryIndexInRange ==
    /\ -1 <= historyIndex
    /\ historyIndex < Len(history)
    /\ (historyIndex = -1) <=> (history = <<>>)

\* goBack moved the index to an inner entry of a history
WentBackWitness ==
    /\ ev.op = "goBack"
    /\ ev.nav \in {"hit", "miss"}
    /\ historyIndex >= 0
    /\ historyIndex < Len(history) - 1

\* a navigation with addToHistory = true applied the path p = currentPath' that
\* differs from the history entry at the index
Pushed == NavApplied(ev') /\ ev'.add /\ HistAt(history, historyIndex) # currentPath'

\* C9 as stated: the push yields the entries [0..index] followed by p, the index
\* pointing at p.
PushTruncatesForward ==
    [][Pushed =>
            /\ history' = Append(SubSeq(history, 1, historyIndex + 1), currentPath')
            /\ historyIndex' = Len(history') - 1]_vars

\* C9 as amended: the push yields the entries [0..index] followed by p, less the
\* oldest entry when that makes 51 entries, the index pointing at p.
PushTruncatesForwardCapped ==
    [][Pushed =>
            /\ history' = LastN(Append(SubSeq(history, 1, historyIndex + 1), currentPath'),
                                HISTORY_LIMIT)
            /\ historyIndex' = Len(history') - 1
            /\ HistAt(history', historyIndex') = currentPath']_vars

\* a push after goBack replaced the forward entry: the last directory of the long
\* session is gone, the one before it is followed by the new path
PushAfterBackWitness ==
    /\ NavApplied(ev)
    /\ ev.add
    /\ Len(history) >= 2
    /\ historyIndex = Len(history) - 1
    /\ history[Len(history)] = currentPath
    /\ history[Len(history) - 1] = WarmDir(WarmNavs - 1)
    /\ currentPath # WarmDir(WarmNavs)

\* C10: the history never holds more than 50 paths; a push onto a full history
\* whose index is at the end drops the oldest path and leaves the index at the
\* pushed path.
HistoryCapped ==
    /\ [](Len(history) <= HISTORY_LIMIT)
    /\ [][(Pushed /\ Len(history) = HISTORY_LIMIT /\ historyIndex = HISTORY_LIMIT - 1) =>
            /\ history' = Append(Tail(history), currentPath')
            /\ historyIndex' = HISTORY_LIMIT - 1
            /\ HistAt(history', historyIndex') = currentPath']_vars

\* a push onto the full history of the long session dropped its oldest path
PushAtCapWitness ==
    /\ NavApplied(ev)
    /\ ev.add
    /\ Len(history) = HISTORY_LIMIT
    /\ history[1] # LastN(WarmVisited, HISTORY_LIMIT)[1]
    /\ history[HISTORY_LIMIT] = currentPath
    /\ historyIndex = HISTORY_LIMIT - 1

\* C11: after navigate(A), navigate(B), navigate(C), each completed before the
\* next, goBack() and goBack() leave the current path at A and a goForward() after
\* them leaves it at B (A = ROOT, B = DirA, C = DirB; every step completes before
\* the next is issued and nothing else changes the state).
BackBackForward ==
    LET back == <<"goBack", "hit">>
        forward == <<"goForward", "hit">>
    IN  /\ trail = <<back>> => (currentPath = DirA /\ historyIndex = 1)
        /\ trail = <<back, back>> => (currentPath = ROOT /\ historyIndex = 0)
        /\ trail = <<back, back, forward>> => (currentPath = DirA /\ historyIndex = 1)
        /\ trail \in {<<back>>, <<back, back>>, <<back, back, forward>>} =>
               history = <<ROOT, DirA, DirB>>

\* the three buttons were pressed in that order and nothing else happened
BackBackForwardWitness ==
    /\ trail = <<<<"goBack", "hit">>, <<"goBack", "hit">>, <<"goForward", "hit">>>>
    /\ pending = <<>>
    /\ currentPath = DirA

\* C12: goBack at index <= 0 and goForward at index = length - 1 change nothing
\* and issue no call; otherwise they move the index by exactly one and leave the
\* history sequence as it was, and so does the return of the list call they issue.
BackForwardFrame ==
    [][/\ ev'.op = "goBack" =>
            IF historyIndex <= 0 THEN UNCHANGED progVars
            ELSE historyIndex' = historyIndex - 1 /\ history' = history
       /\ ev'.op = "goForward" =>
            IF historyIndex >= Len(history) - 1 THEN UNCHANGED progVars
            ELSE historyIndex' = historyIndex + 1 /\ history' = history
       /\ (ev'.op = "listReturns" /\ ~ev'.add) =>
            history' = history /\ historyIndex' = historyIndex]_vars

\* goForward moved the index back to the end of the history after a goBack
ForwardAfterBackWitness ==
    /\ trail = <<<<"goBack", "hit">>, <<"goForward", "hit">>>>
    /\ historyIndex = Len(history) - 1
    /\ Len(history) = HISTORY_LIMIT

\* C13: when the navigation started by goBack or goForward is rejected, or its
\* list call fails, the history index is the one before the goBack/goForward call.
BackForwardRestoresIndex ==
    [][/\ (ev'.op \in {"goBack", "goForward"} /\ ev'.nav = "rejected") =>
            historyIndex' = historyIndex
       /\ (ev.nav = "miss" /\ NavFailed(ev') /\ pending' = RemoveAt(pending, Len(pending))) =>
            /\ ev.op = "goBack" => historyIndex' = historyIndex + 1
            /\ ev.op = "goForward" => historyIndex' = historyIndex - 1]_vars

\* C14: navigate is a no-op (no list call, no change of the current path, the
\* history or the cache) whenever the backend is marked unreachable or the
\* normalised path is empty.
NavigateRejectsEmpty ==
    [][(/\ ev'.op = "navigate"
        /\ \/ ~isOnline
           \/ \A i \in 1..Len(arg') : arg'[i] \in {BS, "/"}) =>
            UNCHANGED <<pending, currentPath, history, historyIndex, cache>>]_vars

\* C15: a prefetch whose list call fails leaves the Directory Cache, the current
\* path, the history, the rendered items and the status line as they were.
PrefetchFailureSilent ==
    [][(ev'.op = "prefetchReturns" /\ ev'.nav \in {"thrown", "unsuccessful"}) =>
            UNCHANGED <<cache, currentPath, history, historyIndex, currentItems, status>>]_vars

\* the list call of a prefetch was rejected while the listing of ROOT is shown
PrefetchFailedWitness ==
    /\ ev.op = "prefetchReturns"
    /\ ev.nav = "thrown"
    /\ currentPath = ROOT
    /\ status = "success"
    /\ MapKeys(cache) = <<ROOT>>

\* C16: the length of the Prefetch Queue never exceeds a fixed bound; the bound
\* tried is the number of folders one listing may contribute.
PrefetchQueueBounded == Len(prefetchQueue) <= PREFETCH_FOLDERS

\* C17 as stated: a refresh empties the Directory Cache and issues exactly one
\* list call for the current path, the history and its index unchanged; with no
\* current path it only empties the cache.
RefreshRefetches ==
    [][ev'.op = "refreshTree" =>
            /\ cache' = <<>>
            /\ history' = history
            /\ historyIndex' = historyIndex
            /\ IF Falsy(currentPath)
               THEN UNCHANGED <<pending, currentPath, currentItems, prefetchQueue, status>>
               ELSE pending' = Append(pending, Request("list", currentPath, FALSE, <<>>, <<>>))]_vars

\* C17 as amended: the list call is issued when the backend is marked reachable;
\* with no current path, or the backend marked unreachable, the refresh only
\* empties the cache.
RefreshRefetchesOnline ==
    [][ev'.op = "refreshTree" =>
            /\ cache' = <<>>
            /\ history' = history
            /\ historyIndex' = historyIndex
            /\ IF Falsy(currentPath) \/ ~isOnline
               THEN UNCHANGED <<pending, currentPath, currentItems, prefetchQueue, status>>
               ELSE pending' = Append(pending, Request("list", currentPath, FALSE, <<>>, <<>>))]_vars

\* a refresh of a cached directory emptied the cache and its list call is the
\* one outstanding request
RefreshWitness ==
    /\ ev.op = "refreshTree"
    /\ ev.nav = "miss"
    /\ cache = <<>>
    /\ ~Falsy(currentPath)
    /\ pending = <<Request("list", currentPath, FALSE, <<>>, <<>>)>>
    /\ Len(dirInserted) = 0

\* the listing of the current path is rendered from the cache, or one list call
\* for it is issued with addToHistory = false
Rerendered ==
    IF MapHas(cache, currentPath)
    THEN pending' = pending /\ currentItems' = MapGet(cache, currentPath).data
    ELSE pending' = Append(pending, Request("list", currentPath, FALSE, <<>>, <<>>))

\* C18 as stated: a search with an empty or blank query sets search mode off,
\* issues no search call, leaves the history unchanged and re-renders the listing
\* of the current directory.
EmptySearchRerenders ==
    [][(ev'.op = "search" /\ \A i \in 1..Len(arg') : arg'[i] = " ") =>
            /\ isSearchMode' = FALSE
            /\ history' = history
            /\ historyIndex' = historyIndex
            /\ Rerendered]_vars

\* C18 as amended: the listing is re-rendered when there is a current path and
\* the backend is marked reachable; otherwise nothing is rendered and no call is
\* issued.
EmptySearchRerendersOnline ==
    [][(ev'.op = "search" /\ \A i \in 1..Len(arg') : arg'[i] = " ") =>
            /\ isSearchMode' = FALSE
            /\ history' = history
            /\ historyIndex' = historyIndex
            /\ IF Falsy(currentPath) \/ ~isOnline
               THEN UNCHANGED <<pending, currentItems, currentPath>>
               ELSE Rerendered]_vars

\* a blank query left search mode and the cached listing of the current directory
\* is rendered again
EmptySearchWitness ==
    /\ ev.op = "search"
    /\ arg = <<" ">>
    /\ ev.nav = "hit"
    /\ ~isSearchMode
    /\ pending = <<>>
    /\ currentItems = MapGet(cache, currentPath).data
    /\ trail = <<<<"search", "hit">>>>

\* C19: a non-empty search whose key (current path or root marker, lower-cased
\* query) is in the Search Cache renders the cached result and issues no search
\* call; queries that differ only in letter case share the key.
SearchCacheHit ==
    [][(ev'.op = "search" /\ \E i \in 1..Len(arg') : arg'[i] # " ") =>
            LET marker == IF Falsy(currentPath) THEN <<"r", "o", "o", "t">> ELSE currentPath
                key == (marker \o <<":">>) \o ToLowerCase(arg')
            IN  IF MapHas(searchCache, key)
                THEN /\ pending' = pending
                     /\ currentItems' = MapGet(searchCache, key)
                     /\ searchCache' = searchCache
                ELSE Len(pending') = Len(pending) + 1]_vars

\* the query AB was served from the entry that the search for ab had cached
SearchCaseHitWitness ==
    /\ ev.op = "search"
    /\ ev.nav = "cacheHit"
    /\ arg = <<"A", "B">>
    /\ MapKeys(searchCache) = <<<<"r", "o", "o", "t", ":", "a", "b">>>>
    /\ pending = <<>>
    /\ currentItems = MapGet(searchCache, <<"r", "o", "o", "t", ":", "a", "b">>)

\* the elements of a sequence
Range(s) == {s[i] : i \in 1..Len(s)}

\* what the backend holds for the pattern *mid* below dir
Found(dir, mid) == IF Exists(dir) THEN Range(SelectMatches(SearchPool, dir, mid)) ELSE {}

\* C20: a search miss issues the call for *query* and, only if the query is
\* longer than 2, the call for *.query*; when they have settled, the items of the
\* calls that succeeded are rendered, each once, a failed call contributes
\* nothing, and the status is never an error (all calls failed: an empty list).
SearchToleratesFailures ==
    [][ev'.op = "searchReturns" =>
            \E i \in 1..Len(pending) :
                LET req == pending[i]
                    dir == IF Falsy(req.path) THEN ROOT ELSE req.path
                    mids == <<req.query, <<".">> \o req.query>>
                    ok == {j \in 1..Len(settled') : settled'[j] = "ok"}
                IN  /\ req.kind = "search"
                    /\ pending' = RemoveAt(pending, i)
                    /\ Len(settled') = (IF Len(req.query) > 2 THEN 2 ELSE 1)
                    /\ Range(currentItems') = UNION {Found(dir, mids[j]) : j \in ok}
                    /\ Len(currentItems') = Cardinality(Range(currentItems'))
                    /\ ok = {} => currentItems' = <<>>
                    /\ status' = "success"]_vars

\* of the two calls of the search for abc the first succeeded and the second was
\* rejected: the items of the first are rendered
SearchPartialFailureWitness ==
    /\ ev.op = "searchReturns"
    /\ settled = <<"ok", "thrown">>
    /\ Len(currentItems) = 2
    /\ status = "success"

\* the first match of the query in the name at position i, without regard to case
MatchesAt(name, q, i) ==
    /\ i + Len(q) - 1 <= Len(name)
    /\ \A k \in 1..Len(q) : LowerChar(name[i + k - 1]) = LowerChar(q[k])

\* C21: calculateRelevance(name, query) is 1000 when the name equals the query
\* without regard to case, else 800 when the name starts with the query, else 600
\* when the query occurs in the name right after '_', '-' or a space, else 400
\* when the query occurs anywhere in the name, else 0.
RelevanceCascade ==
    fnOut # <<>> =>
        LET name == fnIn.name
            q == fnIn.query
            boundary == \E i \in 2..(Len(name) + 1) :
                            name[i - 1] \in {"_", "-", " "} /\ MatchesAt(name, q, i)
            anywhere == \E i \in 1..(Len(name) + 1) : MatchesAt(name, q, i)
        IN  fnOut[1] = IF Len(name) = Len(q) /\ MatchesAt(name, q, 1) THEN 1000
                       ELSE IF MatchesAt(name, q, 1) THEN 800
                       ELSE IF boundary THEN 600
                       ELSE IF anywhere THEN 400
                       ELSE 0

\* the query B scored 600 in the name a_b: a match at a word boundary, in another
\* letter case
RelevanceBoundaryWitness ==
    /\ fnIn = [name |-> <<"a", "_", "b">>, query |-> <<"B">>]
    /\ fnOut = <<600>>

\* C22: the ranked result holds the items of the merged collection, sorted by
\* descending relevance, items of equal relevance in their order in the merged
\* collection; for the query log over log.txt, catalog.txt, my-log-file.txt,
\* backlog.txt the order is log.txt, my-log-file.txt, catalog.txt, backlog.txt.
RankedDescendingStable ==
    fnOut # <<>> =>
        LET items == fnIn.items
            ranked == fnOut[1]
            Score(x) == CalculateRelevance(x.name, fnIn.query)
            Pos(x) == CHOOSE i \in 1..Len(items) : items[i] = x
        IN  /\ Len(ranked) = Len(items)
            /\ Range(ranked) = Range(items)
            /\ \A i, j \in 1..Len(ranked) :
                    i < j => \/ Score(ranked[i]) > Score(ranked[j])
                             \/ /\ Score(ranked[i]) = Score(ranked[j])
                                /\ Pos(ranked[i]) < Pos(ranked[j])
            /\ (items = <<LogTxt, CatalogTxt, MyLogFileTxt, BacklogTxt>>
                    /\ fnIn.query = <<"l", "o", "g">>)
                => ranked = <<LogTxt, MyLogFileTxt, CatalogTxt, BacklogTxt>>

\* the four files of the example were ranked for the query log
RankedExampleWitness ==
    /\ fnIn = [items |-> <<LogTxt, CatalogTxt, MyLogFileTxt, BacklogTxt>>,
               query |-> <<"l", "o", "g">>]
    /\ fnOut = <<<<LogTxt, MyLogFileTxt, CatalogTxt, BacklogTxt>>>>

\* C23: after a search, served from the search cache or from the backend, the
\* file list shows the items of the ranked result in the order of the ranked
\* result, not re-sorted into folders and files by name.
SearchShownInRankOrder ==
    (ev.op = "searchReturns" \/ (ev.op = "search" /\ ev.nav = "cacheHit"))
        => rendered.items = currentItems

\* C24: of a collection of fewer than 1000 items every item is rendered, also
\* after scroll events on the list.
SmallCollectionRenderedInFull ==
    (HasItems /\ Len(currentItems) < virtualScrollThreshold)
        => /\ Len(rendered.items) = Len(currentItems)
           /\ Range(rendered.items) = Range(currentItems)

WindowSizedToViewport ==
    [][(ev'.op \in {"renderFileList", "setView", "scroll"} /\ ev'.nav = "window"
            /\ Len(currentItems') > virtualScrollThreshold)
          => LET length == Len(currentItems')
                 startIndex == rendered'.top \div 36
                 visibleCount == (clientHeight' + 35) \div 36
                 rest == length - startIndex
             IN  /\ visibleItems' = visibleCount
                 /\ Len(rendered'.items) = IF visibleCount + 10 < rest THEN visibleCount + 10 ELSE rest
                 /\ (ev'.op = "scroll" /\ length = 5000 /\ clientHeight' = 720 /\ scrollTop' = 3600)
                        => /\ startIndex = 100
                           /\ rendered'.top = 3600
                           /\ Len(rendered'.items) = 30]_vars

\* C27: at most one audio session is live at a time, and when a new playback
\* object is assigned or the player is closed, the previous playback object has
\* been paused and released and no peak-meter frame is left requested.
SessionReleasedBeforeNext ==
    [][/\ Cardinality({a \in 1..Len(audios') : ~audios'[a].paused}) <= 1
       /\ Cardinality({a \in 1..Len(audios') : ~audios'[a].released}) <= 1
       /\ audioPlayer'.audio # audioPlayer.audio =>
             /\ audioPlayer.audio # 0 =>
                   /\ audios'[audioPlayer.audio].paused
                   /\ audios'[audioPlayer.audio].released
             /\ frames' = {}
             /\ audioPlayer'.animationId = 0]_vars

\* C28: the peak meter is updated, by the call that starts the loop or by an
\* animation frame, only while isPlaying is true and only when the control that
\* acted last is play: after a pause, a stop or the end of the playback no frame
\* updates it until play is requested again.
PeakMeterOnlyWhilePlaying ==
    [][ev'.nav = "metered" =>
          /\ control' = "play"
          /\ audioPlayer'.isPlaying
          /\ ev'.op = "animationFrame" => audioPlayer.isPlaying]_vars

\* an animation frame that was still requested ran after a pause and returned
\* without updating the meter
FrameAfterPauseWitness ==
    /\ ev.op = "animationFrame"
    /\ ev.nav = "returned"
    /\ control = "pause"
    /\ ~audioPlayer.isPlaying
    /\ frameCount >= 2

\* C29: when decoding the bytes fails, loadAudioFile ends loaded: the playback
\* object of the requested file is assigned and not released, the placeholder
\* waveform is drawn and the status is no error; a failure of the read_binary call
\* leaves the session as it was and reports an error.
DecodeFailureStillLoads ==
    [][/\ (ev'.op = "decodeReturns" /\ ev'.nav = "rejected") =>
             /\ audioPlayer'.audio # 0
             /\ audios'[audioPlayer'.audio].file = arg'
             /\ ~audios'[audioPlayer'.audio].released
             /\ audioPlayer'.currentFile = arg'
             /\ waveform' = "placeholder"
             /\ status' = "success"
       /\ (ev'.op = "readReturns" /\ ev'.nav \in {"thrown", "unsuccessful"}) =>
             /\ UNCHANGED <<audioPlayer, audios, waveform, playerHidden>>
             /\ status' = "error"]_vars

\* C30: the normalised series of a channel holds numbers only; its maximum is 1
\* when the channel is not silent, and it is all zero when the channel is silent
\* or has fewer samples than the canvas is wide (block size 0).
WaveformNormalized ==
    fnOut # <<>> =>
        LET rawData == fnIn.rawData
            series == fnOut[1]
            silent == \A i \in 1..Len(rawData) : rawData[i] = 0
        IN  /\ \A i \in 1..Len(series) : series[i].kind = "finite"
            /\ IF silent \/ Len(rawData) < fnIn.width
               THEN \A i \in 1..Len(series) : series[i] = Number(0)
               ELSE /\ \E i \in 1..Len(series) : series[i] = Number(1)
                    /\ \A i \in 1..Len(series) : AtLeast(Number(1), series[i])

\* C33: at most one list call of a prefetch is in flight at any moment.
OnePrefetchInFlight ==
    Cardinality({i \in 1..Len(pending) : pending[i].kind = "prefetch"}) <= 1

\* C35: whenever no list call of a navigation is in flight and the history is not
\* empty, the history entry at the history index is the current path.
HistoryEntryIsCurrentPath ==
    (history # <<>> /\ \A i \in 1..Len(pending) : pending[i].kind # "list") =>
        HistAt(history, historyIndex) = currentPath

\* C37: a list call, of a prefetch or of a navigation, that was in flight when an
\* explicit refresh cleared the Directory Cache does not insert its result into
\* the cache when it returns.
RefreshDropsEarlierRequests ==
    [][(ev'.op \in {"listReturns", "prefetchReturns"} /\ preRefresh' < preRefresh) =>
            cache' = cache]_vars

\* C38: at most one animation frame of the peak meter is requested at any time.
SinglePeakMeterLoop == Cardinality(frames) <= 1

\* C39: a call of loadAudioFile whose read or decode returns after a call made
\* later has assigned its playback object neither replaces the session nor
\* repaints the waveform; and once no load is in progress, the playback object, the
\* recorded current file and the drawn waveform belong to the same file, the file
\* requested last when the call made last has assigned a playback object.
OverlappingLoadsKeepLast ==
    [][/\ (session'.returned # 0 /\ session'.returned < session.newest) =>
            /\ UNCHANGED <<audioPlayer, waveform>>
            /\ session'.drawn = session.drawn
       /\ (loads' = <<>> /\ audioPlayer'.audio # 0 /\ waveform' \in {"real", "placeholder"}) =>
            /\ audios'[audioPlayer'.audio].file = audioPlayer'.currentFile
            /\ session'.drawn = audioPlayer'.currentFile
            /\ session'.newest = session'.issued =>
                   audioPlayer'.currentFile = session'.requested]_vars

\* C40: a search all of whose calls failed stores the empty result under the key
\* made of its path and its lower-cased query, and renders it; a search whose key
\* holds an empty result in the Search Cache renders the empty list and issues no
\* call.
FailedSearchCached ==
    [][/\ (ev'.op = "searchReturns" /\ \A j \in 1..Len(settled') : settled'[j] # "ok") =>
            \E i \in 1..Len(pending) :
                /\ pending[i].kind = "search"
                /\ pending' = RemoveAt(pending, i)
                /\ pending[i].key = SearchKey(pending[i].path, pending[i].query)
                /\ MapHas(searchCache', pending[i].key)
                /\ MapGet(searchCache', pending[i].key) = <<>>
                /\ currentItems' = <<>>
       /\ (/\ ev'.op = "search"
           /\ Trim(arg') # <<>>
           /\ MapHas(searchCache, SearchKey(currentPath, arg'))
           /\ MapGet(searchCache, SearchKey(currentPath, arg')) = <<>>) =>
            /\ ev'.nav = "cacheHit"
            /\ pending' = pending
            /\ searchCache' = searchCache
            /\ currentItems' = <<>>]_vars

\* the query of a search whose only call was rejected is searched again, in other
\* letter case, and served from the Search Cache
FailedSearchHitWitness ==
    /\ ev.op = "search"
    /\ ev.nav = "cacheHit"
    /\ settled = <<"thrown">>
    /\ pending = <<>>
    /\ currentItems = <<>>
    /\ searchQuery = <<"A", "B">>
    /\ MapKeys(searchCache) = <<SearchKey(currentPath, <<"a", "b">>)>>

\* C32: queuePrefetch, which a successful navigation calls once with its listing,
\* leaves the paths already queued in place and appends at most 5 paths, each the
\* path of a folder of the listing and none a key of the Directory Cache.
EnqueuesUncachedFolders ==
    fnOut # <<>> =>
        LET q == fnOut[1]
            before == Len(fnIn.queue)
        IN  /\ Len(q) >= before
            /\ SubSeq(q, 1, before) = fnIn.queue
            /\ Len(q) - before <= 5
            /\ \A j \in (before + 1)..Len(q) :
                   /\ \E i \in 1..Len(fnIn.items) :
                          fnIn.items[i].path = q[j] /\ ~fnIn.items[i].is_file
                   /\ ~MapHas(fnIn.cache, q[j])

\* a listing of more than five folders, one of the first five of them cached, was
\* queued behind a path: four paths were appended
EnqueueCapWitness ==
    /\ fnOut # <<>>
    /\ Len(SelectFolders(fnIn.items)) > 5
    /\ fnIn.queue # <<>>
    /\ Len(fnIn.cache) = 1
    /\ Len(fnOut[1]) = Len(fnIn.queue) + 4

RECURSIVE FoundBy(_)
\* the items the succeeded calls returned, in the order of the calls
FoundBy(outs) ==
    IF outs = <<>> THEN <<>>
    ELSE (IF Succeeded(Head(outs)) THEN Head(outs).value.data ELSE <<>>) \o FoundBy(Tail(outs))

\* the place where the path p is first seen in `found`
FirstSeenAt(found, p) ==
    CHOOSE k \in 1..Len(found) : found[k].path = p /\ \A m \in 1..(k - 1) : found[m].path # p

\* C34: the merged result holds no two items of the same path, holds every item a
\* succeeded call returned exactly once and nothing else, in the order in which
\* their paths were first seen.
MergedByFirstPath ==
    fnOut # <<>> =>
        LET merged == fnOut[1]
            found == FoundBy(fnIn.outs)
        IN  /\ \A i, j \in 1..Len(merged) : i # j => merged[i].path # merged[j].path
            /\ \A k \in 1..Len(found) :
                   Cardinality({i \in 1..Len(merged) : merged[i] = found[k]}) = 1
            /\ \A i \in 1..Len(merged) : \E k \in 1..Len(found) : found[k] = merged[i]
            /\ \A i, j \in 1..Len(merged) :
                   i < j => FirstSeenAt(found, merged[i].path) < FirstSeenAt(found, merged[j].path)

\* two calls succeeded; the second returned a new item in front of an item the
\* first had returned, and the merged result keeps that item in its first place
MergedTwiceSeenWitness ==
    /\ fnOut = <<<<SearchPool[1], SearchPool[2], SearchPool[3]>>>>
    /\ Len(fnIn.outs) = 2
    /\ Succeeded(fnIn.outs[1])
    /\ Succeeded(fnIn.outs[2])
    /\ fnIn.outs[2].value.data = <<SearchPool[3], SearchPool[1]>>

\* a call of pasteItems ended in this step
PasteEnded == ev'.op = "pasteReturns" /\ Len(ops') < Len(ops)

\* C31: when a paste ends and nothing else has changed the clipboard since it
\* began, the clipboard is the one the paste found if one of its copy or move
\* requests failed; if all succeeded, a cut clipboard has lost its items and kept
\* its operation, and a copy clipboard is the one the paste found.
PasteKeepsClipboardWhole ==
    [][(PasteEnded /\ clipboard = finished'.before) =>
            IF finished'.failed THEN clipboard' = finished'.before
            ELSE IF finished'.before.operation = "cut"
                 THEN clipboard' = [finished'.before EXCEPT !.items = <<>>]
                 ELSE clipboard' = finished'.before]_vars

\* C36: the step in which a create, a delete or a paste ends, all its requests
\* answered with success, does not render the listing of the Directory Cache: it
\* issues a list call for the current path, unless the backend is marked
\* unreachable.
OperationRelistsFromBackend ==
    [][(/\ ev'.op \in {"pasteReturns", "deleteReturns", "createReturns"}
        /\ Len(ops') < Len(ops)
        /\ ~finished'.failed) =>
            /\ ev'.nav # "hit"
            /\ ev'.nav = "miss" =>
                   pending' = Append(pending, Request("list", currentPath, FALSE, <<>>, AWAITED))]_vars

====
